---- MODULE Spec2Model ----
(***************************************************************************)
(* Extraction pipeline of the exam-paper parser: ExamPDFParser             *)
(* (src/exam_parser.py) and CaseStudyParser (src/case_parser.py).          *)
(*                                                                         *)
(* A document is a sequence of characters.  Every character is one string  *)
(* token; the ideographs and full-width signs the source's patterns name   *)
(* are written by their pinyin or by a short ASCII name:                   *)
(*   yi er san si wu liu qi ba jiu shi   the numerals 1..10                *)
(*   dun               the list comma                                      *)
(*   shi2 wu4 cao zuo he   "practical operation and" of the case header    *)
(*   da an             "answer" (an is also the first sign of an-li)       *)
(*   jie xi            "analysis"                 can kao   "reference"    *)
(*   an li             "case"                     wen ti    "question"     *)
(*   bei jing zi liao  "background material"      ji        "and"          *)
(*   dan xiang xuan ze ti / duo xiang xuan ze ti  the choice-section names *)
(*   gong              "in total"                 zheng que "correct"      *)
(*   fen "points"  ge "each"                      han   any other ideograph*)
(*   lp rp   full-width parentheses   ( )   ASCII parentheses              *)
(*   lb rb   the lenticular brackets  [ ]   ASCII square brackets          *)
(*   fcolon fdot fcomma   full-width colon, full stop, comma               *)
(*   : . ,   their ASCII forms    sp nl   space and line break             *)
(*   chk     the check mark       x ?     other ASCII letters and signs    *)
(***************************************************************************)
EXTENDS Integers, Sequences, FiniteSets, TLC

VARIABLES
    input,        \* how the document was written (what the claims quantify over)
    text,         \* the raw text of the document being parsed
    meta,         \* <<year, subject>> handed to the case parser
    flavor,       \* the entry point: "inline", "separate", "table" or "case"
    pc,           \* position of the parse in its method
    type_ranges,  \* _detect_question_type_ranges: type label -> <<start, end>>
    main_text,    \* _parse_questions: the text the choice questions are cut from
    parts,        \* _parse_questions: the list re.split returned
    idx,          \* the loop index into parts / case_matches
    questions,    \* the ExamQuestion list being built / returned
    parsed,       \* the questions as stage one returned them
    answers,      \* _extract_answers_section: number -> [answer, analysis]
    raised,       \* TRUE once a step has raised an exception
    case_section, \* _parse_case_studies: the question part of the case section
    score_info,   \* _parse_case_studies: case number -> score
    case_matches, \* _parse_case_studies: the markers used as case boundaries
    case_studies, \* the CaseStudy list being built / returned
    log           \* the parses this parser instance has completed

vars == <<input, text, meta, flavor, pc, type_ranges, main_text, parts, idx,
          questions, parsed, answers, raised, case_section, score_info,
          case_matches, case_studies, log>>

-----------------------------------------------------------------------------
(* Character classes of Python's re on str patterns.                       *)

Digit == {"0", "1", "2", "3", "4", "5", "6", "7", "8", "9"}

AtoE == {"A", "B", "C", "D", "E"}

\* \s
Space == {"sp", "nl"}

\* the ideograph range [U+4E00-U+9FA5] of the un-punctuated question pattern
Han == {"yi", "er", "san", "si", "wu", "liu", "qi", "ba", "jiu", "shi",
        "da", "an", "jie", "xi", "can", "kao", "li", "wen", "ti", "bei", "jing",
        "zi", "liao", "ji", "dan", "xiang", "xuan", "ze", "duo", "gong",
        "zheng", "que", "fen", "ge", "shi2", "wu4", "cao", "zuo", "he", "han"}

\* \w : letters, digits and ideographs are word characters
Word == Digit \cup AtoE \cup Han \cup {"x"}

\* [yi er san si wu liu qi ba jiu shi]
Numeral == {"yi", "er", "san", "si", "wu", "liu", "qi", "ba", "jiu", "shi"}

\* [yi er san si wu]
Numeral5 == {"yi", "er", "san", "si", "wu"}

-----------------------------------------------------------------------------
(* Regular expressions.  A pattern is a sequence of nodes; Match tries the *)
(* alternatives in the order of Python's backtracking matcher, so the      *)
(* first success is the match re returns.                                  *)

Ch(S) == [t |-> "ch", s |-> S]
NotCh(S) == [t |-> "nch", s |-> S]
Lit(w) == [i \in 1..Len(w) |-> Ch({w[i]})]
\* .   without and with re.DOTALL
Dot == NotCh({"nl"})
DotAll == NotCh({})
\* body* , body*?   (body: a pattern that consumes at least one character)
Star(body) == [t |-> "star", b |-> body, g |-> TRUE]
Lazy(body) == [t |-> "star", b |-> body, g |-> FALSE]
Plus(body) == body \o <<Star(body)>>
Alt(a, b) == [t |-> "alt", a |-> a, b |-> b]
Opt(body) == Alt(body, <<>>)
Ahead(body) == [t |-> "look", b |-> body, pos |-> TRUE]
NotAhead(body) == [t |-> "look", b |-> body, pos |-> FALSE]
Open(k) == [t |-> "open", k |-> k]
Close(k) == [t |-> "close", k |-> k]
Grp(k, body) == <<Open(k)>> \o body \o <<Close(k)>>
\* ^ and $ without re.MULTILINE, ^ and $ with it, \b
Bos == [t |-> "bos"]
Eos == [t |-> "eos"]
Bol == [t |-> "bol"]
Eol == [t |-> "eol"]
Wb == [t |-> "wb"]

NoCaps == <<0, 0, 0, 0>>
NoMatch == [ok |-> FALSE, s |-> 0, e |-> 0, caps |-> NoCaps]

IsWordAt(txt, i) == i >= 1 /\ i <= Len(txt) /\ txt[i] \in Word

MinOf(S) == CHOOSE x \in S : \A y \in S : x <= y
MaxOf(S) == CHOOSE x \in S : \A y \in S : x >= y

\* a node that consumes exactly one character
IsCharNode(n) == n.t \in {"ch", "nch"}
Accepts(n, c) == IF n.t = "ch" THEN c \in n.s ELSE c \notin n.s

\* the end of the longest run of characters from i that node n accepts
RunEnd(n, txt, i) ==
    LET stops == {j \in i..Len(txt) : ~Accepts(n, txt[j])}
    IN  IF stops = {} THEN Len(txt) + 1 ELSE MinOf(stops)

RECURSIVE Match(_, _, _, _)
Match(rs, txt, i, caps) ==
    IF Len(rs) = 0 THEN [ok |-> TRUE, s |-> 0, e |-> i, caps |-> caps]
    ELSE
    LET n == Head(rs)
        rest == Tail(rs)
        cont == Match(rest, txt, i, caps)
    IN  CASE IsCharNode(n) ->
               IF i <= Len(txt) /\ Accepts(n, txt[i])
               THEN Match(rest, txt, i + 1, caps) ELSE NoMatch
          [] n.t = "star" /\ Len(n.b) = 1 /\ IsCharNode(n.b[1]) ->
               \* a repeated character class: the run may end anywhere the
               \* rest matches; greedy takes the longest, lazy the shortest
               LET res == [j \in i..RunEnd(n.b[1], txt, i) |->
                              Match(rest, txt, j, caps)]
                   ends == {j \in DOMAIN res : res[j].ok}
               IN  IF ends = {} THEN NoMatch
                   ELSE res[IF n.g THEN MaxOf(ends) ELSE MinOf(ends)]
          [] n.t = "star" /\ ~(Len(n.b) = 1 /\ IsCharNode(n.b[1])) ->
               IF n.g
               THEN LET more == Match(n.b \o rs, txt, i, caps)
                    IN  IF more.ok THEN more ELSE cont
               ELSE IF cont.ok THEN cont ELSE Match(n.b \o rs, txt, i, caps)
          [] n.t = "alt" ->
               LET first == Match(n.a \o rest, txt, i, caps)
               IN  IF first.ok THEN first ELSE Match(n.b \o rest, txt, i, caps)
          [] n.t = "look" ->
               IF Match(n.b, txt, i, caps).ok = n.pos THEN cont ELSE NoMatch
          [] n.t = "open" ->
               Match(rest, txt, i, [caps EXCEPT ![2 * n.k - 1] = i])
          [] n.t = "close" ->
               Match(rest, txt, i, [caps EXCEPT ![2 * n.k] = i])
          [] n.t = "bos" -> IF i = 1 THEN cont ELSE NoMatch
          [] n.t = "bol" ->
               IF i = 1 \/ txt[i - 1] = "nl" THEN cont ELSE NoMatch
          [] n.t = "eos" ->
               IF i = Len(txt) + 1 \/ (i = Len(txt) /\ txt[i] = "nl")
               THEN cont ELSE NoMatch
          [] n.t = "eol" ->
               IF i = Len(txt) + 1 \/ txt[i] = "nl" THEN cont ELSE NoMatch
          [] n.t = "wb" ->
               IF IsWordAt(txt, i - 1) # IsWordAt(txt, i) THEN cont ELSE NoMatch

\* the match attempt at every position of the text
MatchStarts(rs, txt) ==
    LET At(m, p) == IF m.ok THEN [m EXCEPT !.s = p] ELSE NoMatch
    IN  [p \in 1..Len(txt) + 1 |-> At(Match(rs, txt, p, NoCaps), p)]

\* the leftmost match at or after from
MatchAt(res, from) ==
    LET later == {p \in DOMAIN res : p >= from /\ res[p].ok}
    IN  IF later = {} THEN NoMatch ELSE res[MinOf(later)]

\* re.search: the leftmost match
Search(rs, txt) == MatchAt(MatchStarts(rs, txt), 1)

\* re.finditer: the non-overlapping matches, left to right
RECURSIVE FindIterFrom(_, _)
FindIterFrom(res, from) ==
    LET Rest(m) ==
            IF m.ok
            THEN <<m>> \o FindIterFrom(res, IF m.e > m.s THEN m.e ELSE m.e + 1)
            ELSE <<>>
    IN  Rest(MatchAt(res, from))

FindIter(rs, txt) == FindIterFrom(MatchStarts(rs, txt), 1)

\* match.group(k), match.group(0)
Group(txt, m, k) == SubSeq(txt, m.caps[2 * k - 1], m.caps[2 * k] - 1)
Group0(txt, m) == SubSeq(txt, m.s, m.e - 1)

\* text[a:] and text[:b] for 1-based a, b (b exclusive)
From(txt, a) == SubSeq(txt, a, Len(txt))
Upto(txt, b) == SubSeq(txt, 1, b - 1)

\* re.split with one capturing group: [pre, g1, between, g2, ..., tail]
RECURSIVE SplitFrom(_, _, _)
SplitFrom(ms, txt, from) ==
    IF Len(ms) = 0 THEN <<From(txt, from)>>
    ELSE <<SubSeq(txt, from, Head(ms).s - 1), Group(txt, Head(ms), 1)>>
         \o SplitFrom(Tail(ms), txt, Head(ms).e)

Split(rs, txt) == SplitFrom(FindIter(rs, txt), txt, 1)

\* str.strip()
Strip(s) ==
    LET keep == {j \in 1..Len(s) : s[j] \notin Space}
    IN  IF keep = {} THEN <<>> ELSE SubSeq(s, MinOf(keep), MaxOf(keep))

\* int() of a run of decimal digits
DigitVal(d) ==
    CASE d = "0" -> 0 [] d = "1" -> 1 [] d = "2" -> 2 [] d = "3" -> 3
      [] d = "4" -> 4 [] d = "5" -> 5 [] d = "6" -> 6 [] d = "7" -> 7
      [] d = "8" -> 8 [] d = "9" -> 9

RECURSIVE ToInt(_)
ToInt(ds) ==
    IF Len(ds) = 0 THEN 0
    ELSE 10 * ToInt(SubSeq(ds, 1, Len(ds) - 1)) + DigitVal(ds[Len(ds)])

\* `needle in text`
Contains(txt, w) == Search(Lit(w), txt).ok

-----------------------------------------------------------------------------
(* ExamPDFParser._detect_question_type_ranges                              *)

Digits1 == Grp(1, Plus(<<Ch(Digit)>>))

\* trailing part shared by the three headers:  .*?ti.*?gong\s*(\d+)\s*ti
HeaderTail ==
    <<Lazy(<<Dot>>), Ch({"ti"}), Lazy(<<Dot>>), Ch({"gong"}), Star(<<Ch(Space)>>)>>
    \o Digits1 \o <<Star(<<Ch(Space)>>), Ch({"ti"})>>

SingleHeaderRe ==
    Lit(<<"yi", "dun">>) \o <<Star(<<Ch(Space)>>), Ch({"dan"}), Lazy(<<Dot>>),
                             Ch({"xuan"})>> \o HeaderTail

MultiHeaderRe ==
    Lit(<<"er", "dun">>) \o <<Star(<<Ch(Space)>>), Ch({"duo"}), Lazy(<<Dot>>),
                             Ch({"xuan"})>> \o HeaderTail

CaseHeaderRe ==
    Lit(<<"san", "dun">>) \o <<Star(<<Ch(Space)>>)>> \o Lit(<<"an", "li">>)
    \o HeaderTail

\* dict.get(key, (0, 0))[1]
RangeEnd(tr, key) == IF key \in DOMAIN tr THEN tr[key][2] ELSE 0

\* d[key] = value on a dict held as a function
Put(d, key, value) ==
    [k \in DOMAIN d \cup {key} |-> IF k = key THEN value ELSE d[k]]

EmptyMap == [k \in {} |-> 0]

RangesWithSingle(txt) ==
    LET m == Search(SingleHeaderRe, txt)
    IN  IF m.ok THEN Put(EmptyMap, "single", <<1, ToInt(Group(txt, m, 1))>>)
        ELSE EmptyMap

\* the multi-choice range without the offset of the single-choice section
MultiRangeFromOne(single_end, multi_count) == <<single_end + 1, multi_count>>

MultiRange(single_end, multi_count) ==
    <<single_end + 1, single_end + multi_count>>

RangesWithMulti(txt, tr) ==
    LET m == Search(MultiHeaderRe, txt)
    IN  IF m.ok
        THEN Put(tr, "multi",
                 MultiRange(RangeEnd(tr, "single"), ToInt(Group(txt, m, 1))))
        ELSE tr

\* the end of the multi-choice section without the step back to the
\* single-choice section
MultiEndOnly(multi_end, single_end) == multi_end

\* multi_end, or single_end when multi_end is 0
MultiEndOr(multi_end, single_end) ==
    IF multi_end = 0 THEN single_end ELSE multi_end

RangesWithCase(txt, tr) ==
    LET m == Search(CaseHeaderRe, txt)
        multi_end == MultiEndOr(RangeEnd(tr, "multi"), RangeEnd(tr, "single"))
    IN  IF m.ok
        THEN Put(tr, "case",
                 <<multi_end + 1, multi_end + ToInt(Group(txt, m, 1))>>)
        ELSE tr

DetectQuestionTypeRanges(txt) ==
    RangesWithCase(txt, RangesWithMulti(txt, RangesWithSingle(txt)))

-----------------------------------------------------------------------------
(* ExamQuestion and the field extractors of ExamPDFParser                  *)

\* Python's None for a text field (no document holds this token)
None == <<"None">>

Alt3(a, b, c) == Alt(a, <<Alt(b, c)>>)
Alt4(a, b, c, d) == Alt(a, <<Alt3(b, c, d)>>)

Ws0 == Star(<<Ch(Space)>>)
Colon == Ch({"fcolon", ":"})
\* [.、．]
NumPunct == Ch({".", "dun", "fdot"})
Letters1 == Grp(1, Plus(<<Ch(AtoE)>>))
DaAn == Lit(<<"da", "an">>)
JieXi == Lit(<<"jie", "xi">>)

\* re.sub(pattern, '', text)
RECURSIVE RemoveFrom(_, _, _)
RemoveFrom(ms, txt, from) ==
    IF Len(ms) = 0 THEN From(txt, from)
    ELSE SubSeq(txt, from, Head(ms).s - 1) \o RemoveFrom(Tail(ms), txt, Head(ms).e)

RemoveAll(rs, txt) == RemoveFrom(FindIter(rs, txt), txt, 1)

\* re.split(pattern, text)[0]
SplitHead(rs, txt) ==
    LET Head1(m) == IF m.ok THEN Upto(txt, m.s) ELSE txt IN Head1(Search(rs, txt))

\* an ordered dict as a sequence of <<key, value>>: d[key] = value
RECURSIVE DictSet(_, _, _)
DictSet(d, key, value) ==
    IF Len(d) = 0 THEN <<<<key, value>>>>
    ELSE IF Head(d)[1] = key THEN <<<<key, value>>>> \o Tail(d)
    ELSE <<Head(d)>> \o DictSet(Tail(d), key, value)

DictKeys(d) == [i \in 1..Len(d) |-> d[i][1]]

\* [lp lb](?:dan xuan ti|duo xuan ti|an li ti)[rp rb]
TypeTagRe ==
    <<Ch({"lp", "lb"}),
      Alt3(Lit(<<"dan", "xuan", "ti">>), Lit(<<"duo", "xuan", "ti">>),
           Lit(<<"an", "li", "ti">>)),
      Ch({"rp", "rb"})>>

\* \n\s*([A-E])[.、．]
OptionRe == <<Ch({"nl"}), Ws0>> \o Grp(1, <<Ch(AtoE)>>) \o <<NumPunct>>

\* da an[:]|jie xi[:]|lb da an rb|lb jie xi rb
OptionCutRe ==
    <<Alt4(DaAn \o <<Colon>>, JieXi \o <<Colon>>,
           Lit(<<"lb", "da", "an", "rb">>), Lit(<<"lb", "jie", "xi", "rb">>))>>

OptionText(txt, ms, i) ==
    LET start == ms[i].e
        end == IF i + 1 <= Len(ms) THEN ms[i + 1].s ELSE Len(txt) + 1
    IN  Strip(SplitHead(OptionCutRe, Strip(SubSeq(txt, start, end - 1))))

RECURSIVE OptionsFrom(_, _, _, _)
OptionsFrom(txt, ms, i, d) ==
    IF i > Len(ms) THEN d
    ELSE OptionsFrom(txt, ms, i + 1,
                     DictSet(d, Group(txt, ms[i], 1)[1], OptionText(txt, ms, i)))

\* _extract_question_and_options: <<question, options>>
ExtractQuestionAndOptions(text0) ==
    LET Cut(txt, ms) ==
            IF Len(ms) > 0
            THEN <<Strip(Upto(txt, ms[1].s)), OptionsFrom(txt, ms, 1, <<>>)>>
            ELSE <<Strip(txt), <<>> >>
        Options(txt) == Cut(txt, FindIter(OptionRe, txt))
    IN  Options(RemoveAll(TypeTagRe, text0))

\* the four inline answer patterns, in their order
AnswerRe1 == DaAn \o <<Colon, Ws0>> \o Letters1
AnswerRe2 == Lit(<<"lb", "da", "an", "rb">>) \o <<Ws0>> \o Letters1
AnswerRe3 == Lit(<<"zheng", "que", "da", "an">>) \o <<Colon, Ws0>> \o Letters1
AnswerRe4 ==
    <<Ch({"nl"}), Ws0>> \o Letters1
    \o <<Ws0, Alt(Lit(<<"zheng", "que">>), <<Ch({"chk"})>>)>>

AnswerPatterns == <<AnswerRe1, AnswerRe2, AnswerRe3, AnswerRe4>>

\* the first pattern of ps that matches gives group(1); otherwise dflt
RECURSIVE FirstGroup(_, _, _, _)
FirstGroup(ps, txt, i, dflt) ==
    LET Found(m) == IF m.ok THEN Group(txt, m, 1) ELSE FirstGroup(ps, txt, i + 1, dflt)
    IN  IF i > Len(ps) THEN dflt ELSE Found(Search(ps[i], txt))

\* _extract_answer
ExtractAnswer(txt) == FirstGroup(AnswerPatterns, txt, 1, None)

\* (.*?)(?=\n\d+[.、．]|$)   under re.DOTALL
AnalysisBody ==
    Grp(1, <<Lazy(<<DotAll>>)>>)
    \o <<Ahead(<<Alt(<<Ch({"nl"})>> \o Plus(<<Ch(Digit)>>) \o <<NumPunct>>,
                     <<Eos>>)>>)>>

InlineAnalysisPatterns ==
    <<JieXi \o <<Colon>> \o AnalysisBody,
      Lit(<<"lb", "jie", "xi", "rb">>) \o AnalysisBody,
      DaAn \o JieXi \o <<Colon>> \o AnalysisBody>>

\* _extract_analysis
ExtractAnalysis(txt) ==
    LET Stripped(g) == IF g = None THEN None ELSE Strip(g)
    IN  Stripped(FirstGroup(InlineAnalysisPatterns, txt, 1, None))

\* _is_multi_choice
IsMultiChoice(txt) ==
    LET Long(m) == m.ok /\ Len(Group(txt, m, 1)) > 1
    IN  Long(Search(AnswerRe1, txt))

TypeOrder == <<"single", "multi", "case">>

\* the loop over type_ranges.items(): the first range holding the number
RECURSIVE TypeByRange(_, _, _)
TypeByRange(tr, number, i) ==
    IF i > Len(TypeOrder) THEN None
    ELSE IF /\ TypeOrder[i] \in DOMAIN tr
            /\ tr[TypeOrder[i]][1] <= number
            /\ number <= tr[TypeOrder[i]][2]
         THEN <<TypeOrder[i]>>
         ELSE TypeByRange(tr, number, i + 1)

TypeByContent(txt) ==
    IF \/ Contains(txt, <<"lp", "duo", "xuan", "ti", "rp">>)
       \/ Contains(txt, <<"lb", "duo", "xuan", "ti", "rb">>)
       \/ IsMultiChoice(txt)
    THEN <<"multi">>
    ELSE IF \/ Contains(txt, <<"lp", "an", "li", "ti", "rp">>)
            \/ Contains(txt, <<"lb", "an", "li", "ti", "rb">>)
            \/ Contains(txt, <<"bei", "jing", "zi", "liao">>)
         THEN <<"case">>
         ELSE <<"single">>

QuestionType(number, txt, tr) ==
    LET Typed(byRange) == IF byRange # None THEN byRange ELSE TypeByContent(txt)
    IN  Typed(TypeByRange(tr, number, 1))

\* _parse_single_question: the sequence of questions it contributes
\* (one question, or none when the stem is empty)
ParseSingleQuestion(num, txt, tr) ==
    LET Question(number, qo) ==
            [number |-> number,
             type |-> QuestionType(number, txt, tr),
             question |-> qo[1],
             options |-> qo[2],
             answer |-> ExtractAnswer(txt),
             analysis |-> ExtractAnalysis(txt)]
        Kept(q) == IF Len(q.question) > 0 THEN <<q>> ELSE <<>>
    IN  Kept(Question(ToInt(num), ExtractQuestionAndOptions(txt)))

-----------------------------------------------------------------------------
(* ExamPDFParser._parse_questions                                          *)

CanKaoDaAn == Lit(<<"can", "kao", "da", "an">>)

\* san dun\s*an li.*?ti.*?(?=can kao da an|$)   under re.DOTALL
CaseSectionRe ==
    Lit(<<"san", "dun">>) \o <<Ws0>> \o Lit(<<"an", "li">>)
    \o <<Lazy(<<DotAll>>), Ch({"ti"}), Lazy(<<DotAll>>),
         Ahead(<<Alt(CanKaoDaAn, <<Eos>>)>>)>>

\* [lp (][yi er san si wu][rp )]
CaseAnswerRe == <<Ch({"lp", "("}), Ch(Numeral5), Ch({"rp", ")"})>>

\* the choice part of the answer region, appended to main_text
AnswerPartOf(txt) ==
    LET Choice(answer_text, c) ==
            IF c.ok THEN Upto(answer_text, c.s) ELSE answer_text
        Part(answer_text) == Choice(answer_text, Search(CaseAnswerRe, answer_text))
        After(a) == IF ~a.ok THEN <<>> ELSE Part(From(txt, a.s))
    IN  After(Search(CanKaoDaAn, txt))

MainText(txt) ==
    LET Main(m) == IF m.ok THEN Upto(txt, m.s) \o AnswerPartOf(txt) ELSE txt
    IN  Main(Search(CaseSectionRe, txt))

LineStart == Alt(<<Bos>>, <<Ch({"nl"})>>)

\* (?:^|\n)(\d+)[.、．]\s*
QuestionRe == <<LineStart>> \o Digits1 \o <<NumPunct, Ws0>>

\* (?:^|\n)(\d+)(?=[ideograph])
BareQuestionRe == <<LineStart>> \o Digits1 \o <<Ahead(<<Ch(Han)>>)>>

MinParts == 10

\* the fallback taken below ten primary matches instead of ten parts
UseFallbackBelowTenMatches(primary) == Len(primary) < 2 * MinParts + 1

\* if len(parts) < 10
UseFallback(primary) == Len(primary) < MinParts

SegmentParts(mt) ==
    LET Parts(primary) ==
            IF UseFallback(primary) THEN Split(BareQuestionRe, mt) ELSE primary
    IN  Parts(Split(QuestionRe, mt))

\* the whole method, as the loop of ParseOne computes it
RECURSIVE QuestionsFrom(_, _, _)
QuestionsFrom(ps, i, tr) ==
    IF i + 1 > Len(ps) THEN <<>>
    ELSE ParseSingleQuestion(ps[i], ps[i + 1], tr) \o QuestionsFrom(ps, i + 2, tr)

ParseQuestions(txt) ==
    QuestionsFrom(SegmentParts(MainText(txt)), 2, DetectQuestionTypeRanges(txt))

-----------------------------------------------------------------------------
(* ExamPDFParser._try_extract_spaced_answers                               *)

Ws1 == Plus(<<Ch(Space)>>)

\* yi dun\s*dan xiang xuan ze ti.*?\n(.*?)(?=er dun|san dun|$)   re.DOTALL
SingleRegionRe ==
    Lit(<<"yi", "dun">>) \o <<Ws0>> \o Lit(<<"dan", "xiang", "xuan", "ze", "ti">>)
    \o <<Lazy(<<DotAll>>), Ch({"nl"})>> \o Grp(1, <<Lazy(<<DotAll>>)>>)
    \o <<Ahead(<<Alt3(Lit(<<"er", "dun">>), Lit(<<"san", "dun">>), <<Eos>>)>>)>>

\* er dun\s*duo xiang xuan ze ti.*?\n(.*?)(?=san dun|$)   re.DOTALL
MultiRegionRe ==
    Lit(<<"er", "dun">>) \o <<Ws0>> \o Lit(<<"duo", "xiang", "xuan", "ze", "ti">>)
    \o <<Lazy(<<DotAll>>), Ch({"nl"})>> \o Grp(1, <<Lazy(<<DotAll>>)>>)
    \o <<Ahead(<<Alt(Lit(<<"san", "dun">>), <<Eos>>)>>)>>

\* (\d+)\s+([A-E])\b
SinglePairRe == Digits1 \o Ws1 \o Grp(2, <<Ch(AtoE)>>) \o <<Wb>>

\* (\d+)\s+([A-E]{2,})\b
MultiPairRe ==
    Digits1 \o Ws1 \o Grp(2, <<Ch(AtoE), Ch(AtoE), Star(<<Ch(AtoE)>>)>>) \o <<Wb>>

\* answers[num] = {} when absent, then answers[num]['answer'] = answer
SetAnswer(ans, num, answer) ==
    Put(ans, num,
        [answer |-> answer,
         analysis |-> IF num \in DOMAIN ans THEN ans[num].analysis ELSE None])

\* max_single: the largest number whose answer has exactly one letter
MaxSingle(ans) ==
    LET singles == {n \in DOMAIN ans :
                       ans[n].answer # None /\ Len(ans[n].answer) = 1}
    IN  IF singles = {} THEN 0 ELSE MaxOf(singles)

\* a multi-choice pair stored under the number printed in its sub-region
ActualNumAsPrinted(max_single, num) == num

\* actual_num = max_single + num: the number a multi-choice pair is stored under
ActualNum(max_single, num) == max_single + num

\* the loop over the pairs of one sub-region; offset is added to each number
RECURSIVE StorePairs(_, _, _, _, _)
StorePairs(ans, txt, ms, i, offset) ==
    IF i > Len(ms) THEN ans
    ELSE StorePairs(SetAnswer(ans, ActualNum(offset, ToInt(Group(txt, ms[i], 1))),
                              Group(txt, ms[i], 2)),
                    txt, ms, i + 1, offset)

SpacedSingles(section, ans) ==
    LET Pairs(single_text) ==
            StorePairs(ans, single_text, FindIter(SinglePairRe, single_text), 1, 0)
        Region(r) == IF r.ok THEN Pairs(Group(section, r, 1)) ELSE ans
    IN  Region(Search(SingleRegionRe, section))

SpacedMultis(section, ans) ==
    LET Pairs(multi_text) ==
            StorePairs(ans, multi_text, FindIter(MultiPairRe, multi_text), 1,
                       MaxSingle(ans))
        Region(r) == IF r.ok THEN Pairs(Group(section, r, 1)) ELSE ans
    IN  Region(Search(MultiRegionRe, section))

\* the answers after the call; the call returns TRUE iff it added a number
TryExtractSpacedAnswers(section, ans) == SpacedMultis(section, SpacedSingles(section, ans))

SpacedFound(section, ans) ==
    DOMAIN TryExtractSpacedAnswers(section, ans) # DOMAIN ans

-----------------------------------------------------------------------------
(* ExamPDFParser._extract_answers_section                                  *)

AnswerMarkers ==
    <<Lit(<<"can", "kao", "da", "an", "ji", "jie", "xi">>),
      Lit(<<"can", "kao", "da", "an">>),
      Lit(<<"da", "an", "ji", "jie", "xi">>),
      Lit(<<"da", "an", "jie", "xi">>),
      Lit(<<"yi", "dun", "dan", "xiang", "xuan", "ze", "ti">>)
          \o <<Lazy(<<Dot>>)>> \o DaAn>>

RECURSIVE MarkedSection(_, _)
MarkedSection(txt, i) ==
    LET Marked(m) == IF m.ok THEN From(txt, m.s) ELSE MarkedSection(txt, i + 1)
    IN  IF i > Len(AnswerMarkers) THEN <<>> ELSE Marked(Search(AnswerMarkers[i], txt))

\* a split at two fifths of the text
SplitPointTwoFifths(txt) == (Len(txt) * 2) \div 5

\* split_point = len(text) * 3 // 5 (0-based)
SplitPoint(txt) == (Len(txt) * 3) \div 5

AnswerSection(txt) ==
    LET Section(marked) ==
            IF Len(marked) > 0 THEN marked ELSE From(txt, SplitPoint(txt) + 1)
    IN  Section(MarkedSection(txt, 1))

LettersOrCommas == Plus(<<Ch(AtoE \cup {",", "fcomma"})>>)

\* the seven number + marker + letters variants, in their order
AnswerVariants ==
    <<Digits1 \o <<NumPunct, Ws0>> \o Lit(<<"lb", "da", "an", "rb">>) \o <<Ws0>>
          \o Grp(2, LettersOrCommas),
      Digits1 \o <<NumPunct, Ws0>> \o DaAn \o <<Colon, Ws0>>
          \o Grp(2, LettersOrCommas),
      Digits1 \o <<Ws0>> \o CanKaoDaAn \o <<Colon, Ws0>>
          \o Grp(2, Plus(<<Ch(AtoE \cup {",", "fcomma"} \cup Space)>>)),
      <<Ch({"lb"})>> \o Digits1 \o <<Ch({"rb"}), Ws0>> \o DaAn \o <<Colon, Ws0>>
          \o Grp(2, LettersOrCommas),
      Digits1 \o <<NumPunct, Ws0>> \o Lit(<<"[", "da", "an", "]">>) \o <<Ws0>>
          \o Grp(2, LettersOrCommas),
      <<Alt(<<Bol>>, <<Ch({"nl"})>>)>> \o Digits1 \o Ws1
          \o Grp(2, Plus(<<Ch(AtoE)>>))
          \o <<Ahead(<<Alt(Ws1 \o Plus(<<Ch(Digit)>>) \o Ws1 \o Plus(<<Ch(AtoE)>>),
                           <<Ws0, Ch({"nl"})>>)>>)>>,
      Digits1 \o <<NumPunct, Ws0>> \o Grp(2, Plus(<<Ch(AtoE)>>))
          \o <<Ws0, Alt(<<Ch({"nl"})>>, Lit(<<"lb", "jie", "xi", "rb">>))>> >>

\* the captured text with only its ends stripped
CleanAnswerStripOnly(g) == Strip(g)

\* strip, drop commas and blanks, keep only the letters A-E
CleanAnswer(g) == SelectSeq(Strip(g), LAMBDA c : c \in AtoE)

\* the dict {} of a new entry
NoEntry == [answer |-> None, analysis |-> None]

\* no entry is made for a number the map does not hold yet
CreateEntryNever(map, num, answer) == map

\* if num not in answers and answer: answers[num] = {}
CreateEntry(map, num, answer) ==
    IF num \notin DOMAIN map /\ Len(answer) > 0 THEN Put(map, num, NoEntry) ELSE map

\* one match of a variant, on st = [map, err]; answers[num]['answer'] = answer
\* raises KeyError when answers holds no entry for num
StoreVariantMatch(st, num, answer) ==
    LET created == CreateEntry(st.map, num, answer)
    IN  IF Len(answer) = 0 THEN st
        ELSE IF num \in DOMAIN created
             THEN [st EXCEPT !.map = [created EXCEPT ![num].answer = answer]]
             ELSE [st EXCEPT !.err = TRUE]

RECURSIVE StoreVariant(_, _, _, _)
StoreVariant(st, txt, ms, i) ==
    IF i > Len(ms) \/ st.err THEN st
    ELSE StoreVariant(StoreVariantMatch(st, ToInt(Group(txt, ms[i], 1)),
                                        CleanAnswer(Group(txt, ms[i], 2))),
                      txt, ms, i + 1)

RECURSIVE VariantAnswers(_, _, _)
VariantAnswers(st, section, v) ==
    IF v > Len(AnswerVariants) \/ st.err THEN st
    ELSE VariantAnswers(StoreVariant(st, section,
                                     FindIter(AnswerVariants[v], section), 1),
                        section, v + 1)

MaxAnalysis == 500

\* (\d+)[.、．]\s*lb jie xi rb(.*?)(?=\d+[.、．]|$)   re.MULTILINE | re.DOTALL
\* (the second analysis pattern has one group and is skipped by the
\*  len(match.groups()) == 2 test)
AppendixAnalysisRe ==
    Digits1 \o <<NumPunct, Ws0>> \o Lit(<<"lb", "jie", "xi", "rb">>)
    \o Grp(2, <<Lazy(<<DotAll>>)>>)
    \o <<Ahead(<<Alt(Plus(<<Ch(Digit)>>) \o <<NumPunct>>, <<Eol>>)>>)>>

\* re.sub(r'\s+', ' ', s)
RECURSIVE CollapseSpace(_)
CollapseSpace(s) ==
    LET m == Search(Ws1, s)
    IN  IF ~m.ok THEN s
        ELSE Upto(s, m.s) \o <<"sp">> \o CollapseSpace(From(s, m.e))

\* the whole text, whatever its length
KeepWhole(s, n) == s

Truncate(s, n) == SubSeq(s, 1, IF Len(s) < n THEN Len(s) ELSE n)

StoreAnalysis(map, num, analysis) ==
    IF num \in DOMAIN map
    THEN [map EXCEPT ![num].analysis = Truncate(CollapseSpace(analysis), MaxAnalysis)]
    ELSE map

RECURSIVE AppendixAnalyses(_, _, _, _)
AppendixAnalyses(map, txt, ms, i) ==
    IF i > Len(ms) THEN map
    ELSE AppendixAnalyses(StoreAnalysis(map, ToInt(Group(txt, ms[i], 1)),
                                        Strip(Group(txt, ms[i], 2))),
                          txt, ms, i + 1)

\* the spaced layout never counts as found
TotalFoundNever(spaced) == FALSE

\* total_found > 0 after _try_extract_spaced_answers on the empty dict: the
\* call returns True and _extract_answers_section returns at once
TotalFound(spaced) == DOMAIN spaced # DOMAIN EmptyMap

\* _extract_answers_section past the choice of its section:
\* [map |-> the answers, err |-> it raised]
ExtractAnswersFrom(section) ==
    LET WithAnalyses(byVariant) ==
            IF byVariant.err THEN byVariant
            ELSE [map |-> AppendixAnalyses(byVariant.map, section,
                                           FindIter(AppendixAnalysisRe, section), 1),
                  err |-> FALSE]
        Answers(spaced) ==
            IF TotalFound(spaced) THEN [map |-> spaced, err |-> FALSE]
            ELSE WithAnalyses(VariantAnswers([map |-> EmptyMap, err |-> FALSE],
                                             section, 1))
    IN  Answers(TryExtractSpacedAnswers(section, EmptyMap))

ExtractAnswersState(txt) == ExtractAnswersFrom(AnswerSection(txt))

ExtractAnswersSection(txt) == ExtractAnswersState(txt).map

-----------------------------------------------------------------------------
(* The merges of the two-stage parses                                      *)

\* the merge that keeps the inline analysis when the entry has none
MergeAnswerKeepAnalysis(q, ans) ==
    IF q.number \in DOMAIN ans
    THEN [q EXCEPT !.answer = ans[q.number].answer,
                   !.analysis = IF ans[q.number].analysis = None THEN @
                                ELSE ans[q.number].analysis]
    ELSE q

\* _parse_questions_with_separate_answers, third stage
MergeAnswer(q, ans) ==
    IF q.number \in DOMAIN ans
    THEN [q EXCEPT !.answer = ans[q.number].answer,
                   !.analysis = ans[q.number].analysis]
    ELSE q

MergeAnswers(qs, ans) == [i \in 1..Len(qs) |-> MergeAnswer(qs[i], ans)]

\* _parse_2010_jidian_with_image_answers: the letters read off the scanned
\* table; all_answers = {**single_choice_answers, **multi_choice_answers}
single_choice_answers == EmptyMap

multi_choice_answers ==
    (21 :> <<"B", "D", "E">>) @@ (22 :> <<"B", "C", "D">>)
    @@ (23 :> <<"B", "C", "E">>) @@ (24 :> <<"A", "C", "D">>)
    @@ (25 :> <<"B", "C", "E">>) @@ (26 :> <<"A", "B", "C">>)
    @@ (27 :> <<"B", "C", "D", "E">>) @@ (28 :> <<"A", "C", "D">>)
    @@ (29 :> <<"B", "C", "D">>) @@ (30 :> <<"B", "D", "E">>)

all_answers == multi_choice_answers @@ single_choice_answers

\* the table answer given only to a question that has no answer yet
OverrideMissingAnswer(q, over) ==
    IF q.number \in DOMAIN over /\ q.answer = None
    THEN [q EXCEPT !.answer = over[q.number]] ELSE q

OverrideAnswer(q, over) ==
    IF q.number \in DOMAIN over THEN [q EXCEPT !.answer = over[q.number]] ELSE q

ApplyOverrides(qs, over) == [i \in 1..Len(qs) |-> OverrideAnswer(qs[i], over)]

-----------------------------------------------------------------------------
(* CaseStudyParser                                                         *)

chinese_to_arabic ==
    [c \in Numeral |->
        CASE c = "yi" -> 1 [] c = "er" -> 2 [] c = "san" -> 3 [] c = "si" -> 4
          [] c = "wu" -> 5 [] c = "liu" -> 6 [] c = "qi" -> 7 [] c = "ba" -> 8
          [] c = "jiu" -> 9 [] c = "shi" -> 10]

WenTi == <<Ch({"wen"}), Ws0, Ch({"ti"})>>

\* bei jing zi liao[:]\s*(.*?)(?=wen\s*ti|$)   re.DOTALL
BackgroundRe ==
    Lit(<<"bei", "jing", "zi", "liao">>) \o <<Colon, Ws0>>
    \o Grp(1, <<Lazy(<<DotAll>>)>>) \o <<Ahead(<<Alt(WenTi, <<Eos>>)>>)>>

MinBackground == 50

\* line.strip() matches \d+[.、．]
ListLineRe == <<Star(<<Ch({"sp"})>>)>> \o Plus(<<Ch(Digit)>>) \o <<NumPunct>>

\* tier 3: the lines before the first line that starts a numbered list
LeadingLines(content) ==
    LET starts == {1} \cup {j + 1 : j \in {k \in 1..Len(content) : content[k] = "nl"}}
        breaks == {p \in starts : Match(ListLineRe, content, p, NoCaps).ok}
    IN  IF breaks = {} THEN content ELSE Upto(content, MinOf(breaks) - 1)

LongEnough(background) == Len(background) > MinBackground

\* tier 1: the labelled background, returned whatever its length
LabelledBackground(content, m) == Strip(Group(content, m, 1))

\* _extract_background: the background, or None
ExtractBackground(content) ==
    LET Unlabelled(lead) == IF LongEnough(lead) THEN lead ELSE None
        BeforeList == Unlabelled(Strip(LeadingLines(content)))
        BeforeLabel(before) == IF LongEnough(before) THEN before ELSE BeforeList
        Tier2(pm) ==
            IF pm.ok THEN BeforeLabel(Strip(Upto(content, pm.s))) ELSE BeforeList
        Tier1(m) ==
            IF m.ok THEN LabelledBackground(content, m)
            ELSE Tier2(Search(WenTi, content))
    IN  Tier1(Search(BackgroundRe, content))

\* wen\s*ti[:]?\s*(.*?)$   re.DOTALL
ProblemRe ==
    WenTi \o <<Opt(<<Colon>>), Ws0>> \o Grp(1, <<Lazy(<<DotAll>>)>>) \o <<Eos>>

NotNl == NotCh({"nl"})

\* (\d+)[.、．]\s*([^\n]+(?:\n(?!\d+[.、．])[^\n]+)*)
SubRe1 ==
    Digits1 \o <<NumPunct, Ws0>>
    \o Grp(2, Plus(<<NotNl>>)
              \o <<Star(<<Ch({"nl"}),
                         NotAhead(Plus(<<Ch(Digit)>>) \o <<NumPunct>>)>>
                        \o Plus(<<NotNl>>))>>)

\* (\d+)\s*([^\n]+(?:\n(?!\d+\s*[^\n])[^\n]+)*)
SubRe2 ==
    Digits1 \o <<Ws0>>
    \o Grp(2, Plus(<<NotNl>>)
              \o <<Star(<<Ch({"nl"}),
                         NotAhead(Plus(<<Ch(Digit)>>) \o <<Ws0, NotNl>>)>>
                        \o Plus(<<NotNl>>))>>)

MinSubQuestion == 5

\* a text of exactly five characters kept as well
KeptFromFive(question_text) == Len(question_text) >= MinSubQuestion

\* if len(question_text) > 5
KeptSubQuestion(question_text) == Len(question_text) > MinSubQuestion

RECURSIVE SubQuestionsFrom(_, _, _)
SubQuestionsFrom(txt, ms, i) ==
    LET Sub(sub_number, question_text) ==
            IF KeptSubQuestion(question_text)
            THEN <<[sub_number |-> sub_number,
                    question |-> question_text,
                    answer |-> None,
                    analysis |-> None]>>
            ELSE <<>>
    IN  IF i > Len(ms) THEN <<>>
        ELSE Sub(ToInt(Group(txt, ms[i], 1)),
                 CollapseSpace(Strip(Group(txt, ms[i], 2))))
             \o SubQuestionsFrom(txt, ms, i + 1)

\* _extract_sub_questions
ExtractSubQuestions(content) ==
    LET Chosen(problem_section, ms1) ==
            SubQuestionsFrom(problem_section,
                             IF Len(ms1) > 0 THEN ms1
                             ELSE FindIter(SubRe2, problem_section), 1)
        In(problem_section) ==
            Chosen(problem_section, FindIter(SubRe1, problem_section))
        Section(pm) == In(IF pm.ok THEN Group(content, pm, 1) ELSE content)
    IN  Section(Search(ProblemRe, content))

NoScore == [some |-> FALSE, v |-> 0]

\* `if background is None`: the empty string passes for a background
NoBackgroundOnlyNone(background) == background = None

\* `if not background`: None or the empty string
NoBackground(background) == background = None \/ Len(background) = 0

\* _parse_single_case: the sequence of case studies it contributes
ParseSingleCase(case_num, case_num_chinese, content, ys, score) ==
    LET Study(background, sub_questions) ==
            IF Len(sub_questions) = 0 THEN <<>>
            ELSE <<[case_number |-> case_num,
                    year |-> ys[1],
                    subject |-> ys[2],
                    title |-> <<"an", "li", "lp", case_num_chinese, "rp">>,
                    background |-> background,
                    sub_questions |-> sub_questions,
                    score |-> score]>>
        With(background) ==
            IF NoBackground(background) THEN <<>>
            ELSE Study(background, ExtractSubQuestions(content))
    IN  With(ExtractBackground(content))

\* [lp (]([numerals and dun]+)[rp )].*?ge?\s*(\d+)\s*fen
ScoreRe ==
    <<Ch({"lp", "("})>> \o Grp(1, Plus(<<Ch(Numeral \cup {"dun"})>>))
    \o <<Ch({"rp", ")"}), Lazy(<<Dot>>), Opt(<<Ch({"ge"})>>), Ws0>>
    \o Grp(2, Plus(<<Ch(Digit)>>)) \o <<Ws0, Ch({"fen"})>>

RECURSIVE ScoreNums(_, _, _, _)
ScoreNums(info, cs, i, score_val) ==
    IF i > Len(cs) THEN info
    ELSE ScoreNums(IF cs[i] \in Numeral
                   THEN Put(info, chinese_to_arabic[cs[i]], score_val) ELSE info,
                   cs, i + 1, score_val)

RECURSIVE ScoreInfoFrom(_, _, _, _)
ScoreInfoFrom(info, txt, ms, i) ==
    IF i > Len(ms) THEN info
    ELSE ScoreInfoFrom(ScoreNums(info, Group(txt, ms[i], 1), 1,
                                 ToInt(Group(txt, ms[i], 2))),
                       txt, ms, i + 1)

\* _extract_score_info
ExtractScoreInfo(section) == ScoreInfoFrom(EmptyMap, section, FindIter(ScoreRe, section), 1)

ScoreOf(info, case_num) ==
    IF case_num \in DOMAIN info THEN [some |-> TRUE, v |-> info[case_num]]
    ELSE NoScore

\* san dun\s*(?:shi2 wu4 cao zuo he)?an li.*?ti.*?(?=can kao da an|$)   re.DOTALL
CaseStudySectionRe ==
    Lit(<<"san", "dun">>)
    \o <<Ws0, Opt(Lit(<<"shi2", "wu4", "cao", "zuo", "he">>))>>
    \o Lit(<<"an", "li">>)
    \o <<Lazy(<<DotAll>>), Ch({"ti"}), Lazy(<<DotAll>>),
         Ahead(<<Alt(CanKaoDaAn, <<Eos>>)>>)>>

\* can kao da an|da an.*?jie xi|lb da an rb
CaseAnswerStartRe ==
    <<Alt3(CanKaoDaAn, DaAn \o <<Lazy(<<Dot>>)>> \o JieXi,
           Lit(<<"lb", "da", "an", "rb">>))>>

\* the question part of the case section; None when there is no section
CaseSection(txt) ==
    LET Cut(section, a) == IF a.ok THEN Upto(section, a.s) ELSE section
        Questions(section) == Cut(section, Search(CaseAnswerStartRe, section))
        Section(m) == IF ~m.ok THEN None ELSE Questions(Group0(txt, m))
    IN  Section(Search(CaseStudySectionRe, txt))

\* an li[lp (]?([numeral])[rp )]?
CaseRe1 ==
    Lit(<<"an", "li">>) \o <<Opt(<<Ch({"lp", "("})>>)>> \o Grp(1, <<Ch(Numeral)>>)
    \o <<Opt(<<Ch({"rp", ")"})>>)>>

LookWindow == 20

\* re.match(r'\s*\n|bei jing', next_chars)
NextCharsRe == <<Alt(<<Ws0, Ch({"nl"})>>, Lit(<<"bei", "jing">>))>>

PassesLookahead(section, m) ==
    Match(NextCharsRe, SubSeq(section, m.e, IF m.e + LookWindow - 1 > Len(section)
                                            THEN Len(section)
                                            ELSE m.e + LookWindow - 1),
          1, NoCaps).ok

\* every occurrence kept, whether or not it passed the lookahead
KeepAll(all, filtered) == all

\* case_matches = filtered_matches if filtered_matches else case_matches
KeepFiltered(all, filtered) == IF Len(filtered) > 0 THEN filtered ELSE all

MarkersA(section) ==
    LET Filtered(all) ==
            KeepFiltered(all, SelectSeq(all, LAMBDA m : PassesLookahead(section, m)))
    IN  Filtered(FindIter(CaseRe1, section))

ParenNumeral == <<Ch({"nl"}), Ch({"lp", "("})>> \o Grp(1, <<Ch(Numeral)>>)
                \o <<Ch({"rp", ")"}), Ws0, Ch({"nl"})>>

\* \n[lp (]([numeral])[rp )]\s*\n(?:bei jing zi liao|wen ti)
CaseRe2 ==
    ParenNumeral \o <<Alt(Lit(<<"bei", "jing", "zi", "liao">>), Lit(<<"wen", "ti">>))>>

\* lb an li([numeral])rb
CaseRe3 == Lit(<<"lb", "an", "li">>) \o Grp(1, <<Ch(Numeral)>>) \o <<Ch({"rb"})>>

\* \n[lp (]([numeral])[rp )]\s*\n(?![dun fcomma])
CaseRe4 == ParenNumeral \o <<NotAhead(<<Ch({"dun", "fcomma"})>>)>>

\* the matches of the first two strategies together
CaseMarkersOfAll(section) == MarkersA(section) \o FindIter(CaseRe2, section)

\* the cascade of the four marker strategies
CaseMarkers(section) ==
    LET Strategy4 == FindIter(CaseRe4, section)
        Strategy3(c) == IF Len(c) > 0 THEN c ELSE Strategy4
        Strategy2(b) == IF Len(b) > 0 THEN b ELSE Strategy3(FindIter(CaseRe3, section))
        Strategy1(a) == IF Len(a) > 0 THEN a ELSE Strategy2(FindIter(CaseRe2, section))
    IN  Strategy1(MarkersA(section))

MinCaseContent == 50

\* the content of a case taken up to the end of the section
CaseContentToEnd(section, ms, i) == SubSeq(section, ms[i].e, Len(section))

CaseContent(section, ms, i) ==
    SubSeq(section, ms[i].e,
           (IF i + 1 <= Len(ms) THEN ms[i + 1].s ELSE Len(section) + 1) - 1)

\* one turn of the loop over case_matches
ParseCaseAt(section, ms, i, ys, scores) ==
    LET Case(chinese, case_num, content) ==
            IF Len(Strip(content)) < MinCaseContent THEN <<>>
            ELSE ParseSingleCase(case_num, chinese, content, ys,
                                 ScoreOf(scores, case_num))
        Numbered(chinese) ==
            Case(chinese, chinese_to_arabic[chinese], CaseContent(section, ms, i))
    IN  Numbered(Group(section, ms[i], 1)[1])

RECURSIVE CasesFrom(_, _, _, _, _)
CasesFrom(section, ms, i, ys, scores) ==
    IF i > Len(ms) THEN <<>>
    ELSE ParseCaseAt(section, ms, i, ys, scores)
         \o CasesFrom(section, ms, i + 1, ys, scores)

\* _parse_case_studies, as the loop of ParseCase computes it
ParseCaseStudies(txt, ys) ==
    LET section == CaseSection(txt)
    IN  IF section = None THEN <<>>
        ELSE CasesFrom(section, CaseMarkers(section), 1, ys,
                       ExtractScoreInfo(section))

-----------------------------------------------------------------------------
(* The parsers as state machines.  One parse runs from pc = "start" to     *)
(* pc = "done" (or "failed" when a step raised).                           *)

\* the list of the earlier parse, left as it was
KeepQuestions(previous) == previous

\* questions = []  (a local list, fresh in every call)
FreshQuestions(previous) == <<>>

\* case_studies = []
FreshCaseStudies(previous) == <<>>

ParserVars == <<type_ranges, main_text, parts, idx, questions, parsed, answers,
                raised>>
CaseVars == <<case_section, score_info, case_matches, case_studies>>

IsExam == flavor \in {"inline", "separate", "table"}

\* _parse_questions up to the return of _detect_question_type_ranges
DetectRanges ==
    /\ pc = "start" /\ IsExam
    /\ questions' = FreshQuestions(questions)
    /\ type_ranges' = DetectQuestionTypeRanges(text)
    /\ pc' = "ranges"
    /\ UNCHANGED <<input, text, meta, flavor, main_text, parts, idx, parsed,
                   answers, raised, log>>
    /\ UNCHANGED CaseVars

\* _parse_questions: the case section is cut out of the text
SeparateCase ==
    /\ pc = "ranges"
    /\ main_text' = MainText(text)
    /\ pc' = "main"
    /\ UNCHANGED <<input, text, meta, flavor, type_ranges, parts, idx, questions,
                   parsed, answers, raised, log>>
    /\ UNCHANGED CaseVars

\* _parse_questions: the split into number / segment parts
Segment ==
    /\ pc = "main"
    /\ parts' = SegmentParts(main_text)
    /\ idx' = 1
    /\ pc' = "loop"
    /\ UNCHANGED <<input, text, meta, flavor, type_ranges, main_text, questions,
                   parsed, answers, raised, log>>
    /\ UNCHANGED CaseVars

\* _parse_questions: one turn of  for i in range(1, len(parts), 2)
ParseOne ==
    /\ pc = "loop"
    /\ idx + 1 < Len(parts)
    /\ questions' = questions
                    \o ParseSingleQuestion(parts[idx + 1], parts[idx + 2], type_ranges)
    /\ idx' = idx + 2
    /\ UNCHANGED <<input, text, meta, flavor, pc, type_ranges, main_text, parts,
                   parsed, answers, raised, log>>
    /\ UNCHANGED CaseVars

\* _parse_questions returns; the caller goes on by its flavor
EndLoop ==
    /\ pc = "loop"
    /\ ~(idx + 1 < Len(parts))
    /\ parsed' = questions
    /\ pc' = CASE flavor = "inline" -> "done"
               [] flavor = "separate" -> "answers"
               [] flavor = "table" -> "table"
    /\ UNCHANGED <<input, text, meta, flavor, type_ranges, main_text, parts, idx,
                   questions, answers, raised, log>>
    /\ UNCHANGED CaseVars

\* _parse_questions_with_separate_answers: _extract_answers_section(text);
\* parse_pdf returns [] when it raises
ExtractAnswers ==
    /\ pc = "answers"
    /\ \E st \in {ExtractAnswersState(text)} :
          /\ answers' = st.map
          /\ raised' = st.err
          /\ pc' = IF st.err THEN "failed" ELSE "merge"
          /\ questions' = IF st.err THEN <<>> ELSE questions
    /\ UNCHANGED <<input, text, meta, flavor, type_ranges, main_text, parts, idx,
                   parsed, log>>
    /\ UNCHANGED CaseVars

\* _parse_questions_with_separate_answers: the answers are matched
Merge ==
    /\ pc = "merge"
    /\ questions' = MergeAnswers(questions, answers)
    /\ pc' = "done"
    /\ UNCHANGED <<input, text, meta, flavor, type_ranges, main_text, parts, idx,
                   parsed, answers, raised, log>>
    /\ UNCHANGED CaseVars

\* _parse_2010_jidian_with_image_answers: the table answers are matched
Override ==
    /\ pc = "table"
    /\ questions' = ApplyOverrides(questions, all_answers)
    /\ pc' = "done"
    /\ UNCHANGED <<input, text, meta, flavor, type_ranges, main_text, parts, idx,
                   parsed, answers, raised, log>>
    /\ UNCHANGED CaseVars

\* _parse_case_studies up to the score table
IsolateCases ==
    /\ pc = "start" /\ flavor = "case"
    /\ case_studies' = FreshCaseStudies(case_studies)
    /\ \E section \in {CaseSection(text)} :
          /\ case_section' = section
          /\ score_info' = IF section = None THEN EmptyMap
                           ELSE ExtractScoreInfo(section)
          /\ pc' = IF section = None THEN "done" ELSE "markers"
    /\ UNCHANGED <<input, text, meta, flavor, case_matches, log>>
    /\ UNCHANGED ParserVars

\* _parse_case_studies: the cascade of marker strategies
FindMarkers ==
    /\ pc = "markers"
    /\ \E found \in {CaseMarkers(case_section)} :
          /\ case_matches' = found
          /\ pc' = IF Len(found) = 0 THEN "done" ELSE "cases"
    /\ idx' = 1
    /\ UNCHANGED <<input, text, meta, flavor, type_ranges, main_text, parts,
                   questions, parsed, answers, raised, case_section, score_info,
                   case_studies, log>>

\* _parse_case_studies: one turn of  for i, match in enumerate(case_matches)
ParseCase ==
    /\ pc = "cases"
    /\ idx <= Len(case_matches)
    /\ case_studies' = case_studies
                       \o ParseCaseAt(case_section, case_matches, idx, meta, score_info)
    /\ idx' = idx + 1
    /\ UNCHANGED <<input, text, meta, flavor, pc, type_ranges, main_text, parts,
                   questions, parsed, answers, raised, case_section, score_info,
                   case_matches, log>>

EndCases ==
    /\ pc = "cases"
    /\ idx > Len(case_matches)
    /\ pc' = "done"
    /\ UNCHANGED <<input, text, meta, flavor, type_ranges, main_text, parts, idx,
                   questions, parsed, answers, raised, log>>
    /\ UNCHANGED CaseVars

\* the state of a parser right after construction, about to parse doc
Begin(in, doc, fl) ==
    /\ input = in
    /\ text = doc
    /\ meta = <<2020, "jd">>
    /\ flavor = fl
    /\ pc = "start"
    /\ type_ranges = EmptyMap
    /\ main_text = <<>>
    /\ parts = <<>>
    /\ idx = 0
    /\ questions = <<>>
    /\ parsed = <<>>
    /\ answers = EmptyMap
    /\ raised = FALSE
    /\ case_section = <<>>
    /\ score_info = EmptyMap
    /\ case_matches = <<>>
    /\ case_studies = <<>>
    /\ log = <<>>

-----------------------------------------------------------------------------
(* Documents                                                               *)

DigitTok(d) ==
    CASE d = 0 -> "0" [] d = 1 -> "1" [] d = 2 -> "2" [] d = 3 -> "3"
      [] d = 4 -> "4" [] d = 5 -> "5" [] d = 6 -> "6" [] d = 7 -> "7"
      [] d = 8 -> "8" [] d = 9 -> "9"

\* str(n)
RECURSIVE NumToks(_)
NumToks(n) ==
    IF n < 10 THEN <<DigitTok(n)>> ELSE NumToks(n \div 10) \o <<DigitTok(n % 10)>>

\* the largest one-digit header count tried; a two-digit count is tried too
MaxCount == 2

HeaderCounts == (0..MaxCount) \cup {10 + MaxCount}

\* "(gong N ti)" as the papers print it, tight or spaced
CountNote(n, style) ==
    IF style = 1 THEN <<"lp", "gong">> \o NumToks(n) \o <<"ti", "rp", "nl">>
    ELSE <<"han", "gong", "sp">> \o NumToks(n) \o <<"sp", "ti", "nl">>

SingleHeader(n, style) ==
    (IF style = 1 THEN <<"yi", "dun", "dan", "xiang", "xuan", "ze", "ti">>
     ELSE <<"yi", "dun", "sp", "dan", "xuan", "ti">>) \o CountNote(n, style)

MultiHeader(n, style) ==
    (IF style = 1 THEN <<"er", "dun", "duo", "xiang", "xuan", "ze", "ti">>
     ELSE <<"er", "dun", "sp", "duo", "xuan", "ti">>) \o CountNote(n, style)

CaseHeader(n, style) ==
    (IF style = 1 THEN <<"san", "dun", "an", "li", "han", "ti">>
     ELSE <<"san", "dun", "sp", "an", "li", "ti">>) \o CountNote(n, style)

\* a paper's skeleton: the section headers that are present, a line of
\* text under each
HeaderDoc(in) ==
    (IF in.hs THEN SingleHeader(in.a, in.style) ELSE <<>>)
    \o <<"1", ".", "han", "nl">>
    \o (IF in.hm THEN MultiHeader(in.b, in.style) ELSE <<>>)
    \o <<"han", "x", "nl">>
    \o (IF in.hc THEN CaseHeader(in.c, in.style) ELSE <<>>)
    \o <<"han", "nl">>

HeaderInputs ==
    [a : HeaderCounts, b : HeaderCounts, c : HeaderCounts,
     hs : BOOLEAN, hm : BOOLEAN, hc : BOOLEAN, style : {1, 2}]

InitRanges == \E in \in HeaderInputs : Begin(in, HeaderDoc(in), "inline")

SpecRanges == InitRanges /\ [][DetectRanges]_vars

\* C1: with the three section headers present and declaring a, b and c
\* items, the detected ranges are exactly [1, a], [a+1, a+b] and
\* [a+b+1, a+b+c], a partition of 1..a+b+c.
RangesPartition ==
    (pc = "ranges" /\ input.hs /\ input.hm /\ input.hc) =>
        /\ DOMAIN type_ranges = {"single", "multi", "case"}
        /\ type_ranges["single"] = <<1, input.a>>
        /\ type_ranges["multi"] = <<input.a + 1, input.a + input.b>>
        /\ type_ranges["case"] = <<input.a + input.b + 1,
                                   input.a + input.b + input.c>>

RangesPartitionWitness ==
    /\ pc = "ranges" /\ input.hs /\ input.hm /\ input.hc
    /\ input.a > 9 /\ input.b > 0 /\ input.c > 0

\* C15: when a section header is missing, each header that is found gets
\* the interval [end of the previous found section + 1, that end + N], the
\* end taken as 0 when no earlier section was found, and a type whose
\* header is missing is absent from the mapping.
RangesChainOverFound ==
    pc = "ranges" =>
        LET single_end == IF input.hs THEN input.a ELSE 0
            multi_end == IF input.hm THEN single_end + input.b ELSE single_end
        IN  /\ DOMAIN type_ranges = (IF input.hs THEN {"single"} ELSE {})
                                     \cup (IF input.hm THEN {"multi"} ELSE {})
                                     \cup (IF input.hc THEN {"case"} ELSE {})
            /\ input.hs => type_ranges["single"] = <<1, input.a>>
            /\ input.hm =>
                  type_ranges["multi"] = <<single_end + 1, single_end + input.b>>
            /\ input.hc =>
                  type_ranges["case"] = <<multi_end + 1, multi_end + input.c>>

RangesChainOverFoundWitness ==
    /\ pc = "ranges" /\ input.hs /\ ~input.hm /\ input.hc
    /\ input.a > 9 /\ input.c > 0
    /\ type_ranges["case"] = <<input.a + 1, input.a + input.c>>
    /\ type_ranges["case"][2] = input.a + input.b + input.c

\* the most items of the first section of a paper of inline items
MaxItems == 6
\* the most items of a second section, which numbers its items from 1 again
MaxAgain == 2

AnswerLetter(k, first) == IF (k + first) % 2 = 0 THEN "A" ELSE "B"

\* "k. stem / A. a / B. b / answer:X", in ASCII or full-width punctuation
Item(k, letter, style) ==
    NumToks(k)
    \o <<IF style = 1 THEN "." ELSE "dun", "han", "x", "?", "nl",
         "A", ".", "sp", "x", "nl",
         "B", ".", "sp", "y", "nl",
         "da", "an", IF style = 1 THEN ":" ELSE "fcolon", letter, "nl">>

RECURSIVE Items(_, _, _, _)
Items(from, to, first, style) ==
    IF from > to THEN <<>>
    ELSE Item(from, AnswerLetter(from, first), style) \o Items(from + 1, to, first, style)

ItemDoc(in) ==
    Items(1, in.n, in.first, in.style) \o Items(1, in.again, in.first, in.style)

ItemInputs ==
    [kind : {"items"}, n : 1..MaxItems, again : 0..MaxAgain, first : {0, 1},
     style : {1, 2}]

\* the question item k of ItemDoc is written to be
ItemQuestion(k, first) ==
    [number |-> k, question |-> <<"han", "x", "?">>,
     options |-> <<<<"A", <<"x">>>>, <<"B", <<"y">>>>>>,
     answer |-> <<AnswerLetter(k, first)>>]

\* the most punctuated and the most unpunctuated items of a mixed paper
MaxPrimary == 11
MaxBare == 2

RECURSIVE PunctuatedLines(_, _)
PunctuatedLines(from, to) ==
    IF from > to THEN <<>>
    ELSE NumToks(from) \o <<".", "x", "nl">> \o PunctuatedLines(from + 1, to)

RECURSIVE BareLines(_, _)
BareLines(from, to) ==
    IF from > to THEN <<>>
    ELSE NumToks(from) \o <<"han", "x", "nl">> \o BareLines(from + 1, to)

\* p items "k.x" and u items "k" + ideograph, in either order
MixDoc(in) ==
    IF in.lead THEN BareLines(1, in.u) \o PunctuatedLines(1, in.p)
    ELSE PunctuatedLines(1, in.p) \o BareLines(1, in.u)

MixInputs == [kind : {"mix"}, p : 0..MaxPrimary, u : 0..MaxBare, lead : BOOLEAN]

\* a paper with choice items, a case section, and the answer heading before
\* the case section (answers printed per part), after it, or both
AnswerHeading == <<"can", "kao", "da", "an", "nl">>

CasePaperDoc(in) ==
    PunctuatedLines(1, in.n)
    \o (IF in.early THEN AnswerHeading \o <<"1", ".", "A", "nl">> ELSE <<>>)
    \o <<"san", "dun", "an", "li", "ti", "nl">>
    \o (IF in.paren THEN <<"lp", "yi", "rp">> ELSE <<"an", "li", "yi">>)
    \o <<"nl", "bei", "jing", "han", "nl", "1", ".", "han", "han", "nl">>
    \o (IF in.late
        THEN AnswerHeading \o <<"2", ".", "B", "nl", "lp", "yi", "rp", "han", "nl">>
        ELSE <<>>)

CasePaperInputs ==
    [kind : {"casepaper"}, n : 1..MaxPrimary, early : BOOLEAN, late : BOOLEAN,
     paren : BOOLEAN]

InitInline ==
    \/ \E in \in ItemInputs : Begin(in, ItemDoc(in), "inline")
    \/ \E in \in CasePaperInputs : Begin(in, CasePaperDoc(in), "inline")
    \/ \E in \in MixInputs : Begin(in, MixDoc(in), "inline")

NextInline == DetectRanges \/ SeparateCase \/ Segment \/ ParseOne \/ EndLoop

SpecInline == InitInline /\ [][NextInline]_vars

Numbers(qs) == {qs[i].number : i \in 1..Len(qs)}

\* C2: a document of N consecutive inline items "k. stem / A. a / B. b /
\* answer:X" yields exactly N questions numbered 1..N, each with its two
\* options and its answer letter.
ItemsAllParsed ==
    (pc = "done" /\ input.kind = "items" /\ input.again = 0) =>
        /\ Len(questions) = input.n
        /\ \A k \in 1..Len(questions) :
              LET want == ItemQuestion(k, input.first)
              IN  /\ questions[k].number = want.number
                  /\ questions[k].question = want.question
                  /\ questions[k].options = want.options
                  /\ questions[k].answer = want.answer

\* the part of C2 the code keeps: from five items on, all N are parsed
ManyItemsAllParsed ==
    (input.kind = "items" /\ 2 * input.n + 1 >= MinParts) => ItemsAllParsed

PrimaryMatches == Len(FindIter(QuestionRe, main_text))

Segmented == pc \in {"loop", "done"} /\ input.kind = "mix"

\* C3 as stated: the fallback segmentation is engaged exactly when the
\* primary pattern matches fewer than 10 markers, and the primary
\* segmentation is kept from 10 matches on.
FallbackBelowTenMatches ==
    Segmented =>
        IF PrimaryMatches < 10 THEN parts = Split(BareQuestionRe, main_text)
        ELSE parts = Split(QuestionRe, main_text)

\* C3 amended: the fallback segmentation is engaged exactly when the
\* primary split holds fewer than 10 parts, that is with fewer than 5
\* primary matches; it then recovers the items written as a number
\* before an ideograph; from 5 primary matches on the primary
\* segmentation is kept.
FallbackBelowTenParts ==
    Segmented =>
        IF 2 * PrimaryMatches + 1 < MinParts
        THEN /\ parts = Split(BareQuestionRe, main_text)
             /\ pc = "done" => /\ Numbers(questions) = 1..input.u
                               /\ Len(questions) = input.u
        ELSE parts = Split(QuestionRe, main_text)

FallbackBelowTenPartsWitness ==
    /\ pc = "done" /\ input.kind = "mix"
    /\ PrimaryMatches = 4 /\ input.u = MaxBare
    /\ Len(questions) = MaxBare
    /\ parts # Split(QuestionRe, main_text)

\* the most one-digit counts of single- and multi-choice pairs of a spaced
\* answer table; the table of 20 and 10 pairs is tried too
MaxSingles == 2
MaxMultis == 2

Letter(j) == <<"A", "B", "C", "D", "E">>[(j % 5) + 1]

\* the letters printed for multi-choice pair k
MultiLetters(k) == IF k % 2 = 1 THEN <<"A", "B">> ELSE <<"A", "C", "E">>

RECURSIVE SinglePairs(_, _)
SinglePairs(from, to) ==
    IF from > to THEN <<>>
    ELSE NumToks(from) \o <<"sp", Letter(from)>>
         \o (IF from < to THEN <<"sp">> ELSE <<>>) \o SinglePairs(from + 1, to)

RECURSIVE MultiPairs(_, _)
MultiPairs(from, to) ==
    IF from > to THEN <<>>
    ELSE NumToks(from) \o <<"sp">> \o MultiLetters(from)
         \o (IF from < to THEN <<"sp">> ELSE <<>>) \o MultiPairs(from + 1, to)

\* the inline answer line of item k, when the paper prints one
InlineAnswer(k, inline) ==
    IF inline THEN <<"da", "an", ":", Letter(k), "nl">> ELSE <<>>

\* questions written as a number before an ideograph, with two options
RECURSIVE BareItems(_, _, _)
BareItems(from, to, inline) ==
    IF from > to THEN <<>>
    ELSE NumToks(from) \o <<"han", "x", "nl", "A", ".", "x", "nl", "B", ".", "y", "nl">>
         \o InlineAnswer(from, inline) \o BareItems(from + 1, to, inline)

\* the first number of the multi-choice sub-region: 1 again, or going on
MultiStart(in) == IF in.cont THEN in.ns + 1 ELSE 1

\* "1 D 2 B ..." under the single-choice header, "1 AB 2 ACE ..." under
\* the multi-choice header, after the questions and the answer marker
SpacedDoc(in) ==
    BareItems(1, in.nq, FALSE)
    \o <<"can", "kao", "da", "an", "nl">>
    \o <<"yi", "dun", "dan", "xiang", "xuan", "ze", "ti", "nl">>
    \o SinglePairs(1, in.ns) \o <<"nl">>
    \o <<"er", "dun", "duo", "xiang", "xuan", "ze", "ti", "nl">>
    \o MultiPairs(MultiStart(in), MultiStart(in) + in.nm - 1) \o <<"nl">>

SpacedInputs ==
    [kind : {"spaced"}, nq : {0, 2}, ns : (0..MaxSingles) \cup {20},
     nm : (0..MaxMultis) \cup {10}, cont : BOOLEAN]

\* the most questions and the most appendix entries of a paper whose
\* answers stand in an appendix
MaxQuestions == 3
MaxEntries == 2

\* a question with its number punctuated, with or without an inline answer
ShortItem(k, inline) ==
    NumToks(k) \o <<".", "han", "x", "nl", "A", ".", "x", "nl", "B", ".", "y", "nl">>
    \o InlineAnswer(k, inline)

RECURSIVE ShortItems(_, _, _)
ShortItems(from, to, inline) ==
    IF from > to THEN <<>>
    ELSE ShortItem(from, inline) \o ShortItems(from + 1, to, inline)

\* one appendix entry for question k in the named layout
Entry(k, layout) ==
    CASE layout = "v1" -> NumToks(k) \o <<".", "lb", "da", "an", "rb", Letter(k + 1), "nl">>
      [] layout = "v2" -> NumToks(k) \o <<".", "sp", "da", "an", "fcolon">>
                          \o MultiLetters(k) \o <<"nl">>
      [] layout = "v7" -> NumToks(k) \o <<".", Letter(k + 1), "nl">>
      [] layout = "prose" -> <<"han", "x", "sp", "han", "nl">>

RECURSIVE Entries(_, _, _)
Entries(from, to, layout) ==
    IF from > to THEN <<>>
    ELSE Entry(from, layout) \o Entries(from + 1, to, layout)

AppendixDoc(in) ==
    (IF in.bare THEN BareItems(1, in.nq, in.inline) ELSE ShortItems(1, in.nq, in.inline))
    \o (IF in.marker THEN <<"can", "kao", "da", "an", "nl">> ELSE <<>>)
    \o Entries(1, in.ne, in.layout)

AppendixInputs ==
    [kind : {"appendix"}, nq : 0..MaxQuestions, bare : BOOLEAN, inline : BOOLEAN,
     marker : BOOLEAN, layout : {"v1", "v2", "v7", "prose"}, ne : 1..MaxEntries]

\* the most filler characters before and after the one answer entry of a
\* paper without an answer marker
MaxFill == 12

\* f filler characters, a line break, the entry of question 1, g filler
\* characters: the entry starts at 0-based position f + 1
PositionalDoc(in) ==
    [i \in 1..in.f |-> "han"] \o <<"nl">> \o Entry(1, "v1")
    \o [i \in 1..in.g |-> "han"]

PositionalInputs == [kind : {"positional"}, f : 0..MaxFill, g : 0..MaxFill]

\* a spaced answer table followed by appendix entries in the first variant,
\* for the numbers 1..ne and with letters other than the table's
OverlaidDoc(in) == SpacedDoc(in) \o Entries(1, in.ne, "v1")

OverlaidInputs ==
    [kind : {"overlaid"}, nq : {0}, ns : 0..MaxSingles, nm : 0..MaxMultis,
     cont : BOOLEAN, ne : 1..(MaxSingles + MaxMultis + 1)]

\* an appendix that gives the answers of 1..ne in one layout and then
\* again in another
TwoLayoutDoc(in) ==
    <<"can", "kao", "da", "an", "nl">>
    \o Entries(1, in.ne, in.first) \o Entries(1, in.ne, in.second)

TwoLayoutInputs ==
    [kind : {"twolayouts"}, first : {"v1", "v2", "v7"}, second : {"v1", "v2", "v7"},
     ne : 1..MaxEntries]

EntryShapes == {"plain", "commas", "blanks", "onlycommas", "noletters"}

\* an entry whose letters come with commas or blanks, or that has no letter
ShapedEntry(k, shape) ==
    CASE shape = "plain" -> Entry(k, "v1")
      [] shape = "commas" ->
           NumToks(k) \o <<".", "lb", "da", "an", "rb", "A", ",", "C", "fcomma", "nl">>
      [] shape = "blanks" ->
           NumToks(k) \o <<"can", "kao", "da", "an", "fcolon", "sp", "A", ",", "sp",
                           "B", "nl">>
      [] shape = "onlycommas" ->
           NumToks(k) \o <<".", "lb", "da", "an", "rb", ",", "fcomma", "nl">>
      [] shape = "noletters" ->
           NumToks(k) \o <<"can", "kao", "da", "an", "fcolon", "nl">>

\* the letters ShapedEntry gives question k; none for the last two shapes
ShapedLetters(k, shape) ==
    CASE shape = "plain" -> <<Letter(k + 1)>>
      [] shape = "commas" -> <<"A", "C">>
      [] shape = "blanks" -> <<"A", "B">>
      [] OTHER -> <<>>

RECURSIVE ShapedEntries(_, _)
ShapedEntries(shapes, k) ==
    IF k > Len(shapes) THEN <<>>
    ELSE ShapedEntry(k, shapes[k]) \o ShapedEntries(shapes, k + 1)

CleaningDoc(in) == <<"can", "kao", "da", "an", "nl">> \o ShapedEntries(in.shapes, 1)

CleaningInputs ==
    {[kind |-> "cleaning", shapes |-> sh] :
        sh \in UNION {[1..n -> EntryShapes] : n \in 1..MaxEntries}}

\* the analysis lengths tried: none, and the neighbours of the limit
AnalysisLens == {0, MaxAnalysis - 1, MaxAnalysis, MaxAnalysis + 1}

\* the answer of question 1, then an analysis of len characters printed
\* for question to, which is question 1 or a question without an answer
AnalysisDoc(in) ==
    <<"can", "kao", "da", "an", "nl">> \o Entry(1, "v1")
    \o NumToks(in.to) \o <<".", "lb", "jie", "xi", "rb">>
    \o [i \in 1..in.len |-> "han"] \o <<"nl">>

AnalysisInputs ==
    [kind : {"analysis"}, to : 1..MaxEntries, len : AnalysisLens]

\* a question with an inline answer and, if asked, an inline analysis
RECURSIVE AnsweredItems(_, _, _)
AnsweredItems(from, to, analysed) ==
    IF from > to THEN <<>>
    ELSE NumToks(from) \o <<"han", "x", "nl", "A", ".", "x", "nl", "B", ".", "y", "nl">>
         \o InlineAnswer(from, TRUE)
         \o (IF analysed THEN <<"jie", "xi", ":", "han", "x", "nl">> ELSE <<>>)
         \o AnsweredItems(from + 1, to, analysed)

\* the appendix entries of questions from..to, each with another letter
\* than the inline one and, if asked, with an analysis
RECURSIVE AnsweredEntries(_, _, _)
AnsweredEntries(from, to, analysed) ==
    IF from > to THEN <<>>
    ELSE NumToks(from) \o <<".", "lb", "da", "an", "rb", Letter(from + 1), "nl">>
         \o (IF analysed
             THEN NumToks(from) \o <<".", "lb", "jie", "xi", "rb", "han", "y", "nl">>
             ELSE <<>>)
         \o AnsweredEntries(from + 1, to, analysed)

\* nq questions answered inline, and an appendix for the first ne of them
MergedDoc(in) ==
    AnsweredItems(1, in.nq, in.inline)
    \o <<"can", "kao", "da", "an", "nl">>
    \o AnsweredEntries(1, in.ne, in.entry)

MergedInputs ==
    [kind : {"merged"}, nq : 1..MaxQuestions, ne : 0..MaxEntries,
     inline : BOOLEAN, entry : BOOLEAN]

InitSeparate ==
    \/ \E in \in SpacedInputs : Begin(in, SpacedDoc(in), "separate")
    \/ \E in \in MergedInputs : Begin(in, MergedDoc(in), "separate")
    \/ \E in \in AnalysisInputs : Begin(in, AnalysisDoc(in), "separate")
    \/ \E in \in CleaningInputs : Begin(in, CleaningDoc(in), "separate")
    \/ \E in \in TwoLayoutInputs : Begin(in, TwoLayoutDoc(in), "separate")
    \/ \E in \in OverlaidInputs : Begin(in, OverlaidDoc(in), "separate")
    \/ \E in \in AppendixInputs : Begin(in, AppendixDoc(in), "separate")
    \/ \E in \in PositionalInputs : Begin(in, PositionalDoc(in), "separate")

NextSeparate ==
    \/ DetectRanges \/ SeparateCase \/ Segment \/ ParseOne \/ EndLoop
    \/ ExtractAnswers \/ Merge

SpecSeparate == InitSeparate /\ [][NextSeparate]_vars

Resolved == pc \in {"merge", "done", "failed"}

\* C4: in the spaced layout the multi-choice answer printed with
\* sub-region number k is stored under max_single + k, max_single being the
\* largest number that holds a one-letter answer; 20 single-choice answers
\* and a sub-region of 10 entries numbered from 1 give answers at 21 to 30.
MultiStoredAfterSingles ==
    (Resolved /\ input.kind = "spaced") =>
        /\ ~raised
        /\ DOMAIN answers =
              (1..input.ns)
              \cup {input.ns + k : k \in MultiStart(input)..MultiStart(input) + input.nm - 1}
        /\ \A j \in 1..input.ns : answers[j].answer = <<Letter(j)>>
        /\ \A k \in MultiStart(input)..MultiStart(input) + input.nm - 1 :
              answers[input.ns + k].answer = MultiLetters(k)
        /\ (input.ns = 20 /\ input.nm = 10 /\ ~input.cont) =>
              {n \in DOMAIN answers : Len(answers[n].answer) > 1} = 21..30

MultiStoredAfterSinglesWitness ==
    /\ pc = "done" /\ input.kind = "spaced"
    /\ input.ns = 20 /\ input.nm = 10 /\ ~input.cont
    /\ DOMAIN answers = 1..30
    /\ answers[21].answer = MultiLetters(1)
    /\ answers[30].answer = MultiLetters(10)

\* no marker of the answer section occurs in the text
NoMarker == \A i \in 1..Len(AnswerMarkers) : ~Search(AnswerMarkers[i], text).ok

\* the part of the text past its three-fifths point
PositionalSection == From(text, (Len(text) * 3) \div 5 + 1)

\* neither the spaced layout nor one of the variants matches in the section
NoLayout(section) ==
    /\ ~SpacedFound(section, EmptyMap)
    /\ \A v \in 1..Len(AnswerVariants) : FindIter(AnswerVariants[v], section) = <<>>

\* C9: answer resolution never ends in an error; without a marker the
\* positional section is the one searched; when no layout matches, the
\* answer map is empty and the questions come back as stage one left them.
AnswerResolutionTotal ==
    Resolved =>
        /\ ~raised /\ pc # "failed"
        /\ NoMarker => answers = ExtractAnswersFrom(PositionalSection).map
        /\ NoLayout(AnswerSection(text)) =>
              /\ answers = EmptyMap
              /\ pc = "done" => questions = parsed

AnswerResolutionTotalWitness ==
    /\ pc = "done" /\ input.kind = "appendix" /\ input.bare
    /\ NoMarker /\ NoLayout(PositionalSection)
    /\ answers = EmptyMap
    /\ Len(questions) = MaxQuestions
    /\ questions[1].answer = <<Letter(1)>>

\* the positional section is searched and a variant fills the map from it
PositionalAnswersWitness ==
    /\ pc = "done" /\ NoMarker
    /\ DOMAIN answers # {}
    /\ ~raised

\* C17: if the spaced number-letter layout yields at least one answer in
\* the single-choice or the multi-choice sub-region, the answer map holds
\* only the entries of that layout: no variant adds or changes an entry.
\* (When the layout yields nothing, the variants fill the map.)
SpacedLayoutAuthoritative ==
    (Resolved /\ input.kind = "overlaid") =>
        IF input.ns + input.nm > 0
        THEN /\ DOMAIN answers =
                   (1..input.ns)
                   \cup {input.ns + k :
                            k \in MultiStart(input)..MultiStart(input) + input.nm - 1}
             /\ \A j \in 1..input.ns : answers[j].answer = <<Letter(j)>>
             /\ \A k \in MultiStart(input)..MultiStart(input) + input.nm - 1 :
                   answers[input.ns + k].answer = MultiLetters(k)
        ELSE /\ DOMAIN answers = 1..input.ne
             /\ \A j \in 1..input.ne : answers[j].answer = <<Letter(j + 1)>>

\* the table holds one answer, the entries name that number and others
SpacedLayoutAuthoritativeWitness ==
    /\ Resolved /\ input.kind = "overlaid"
    /\ input.ns = 1 /\ input.nm = 0 /\ input.ne > 1
    /\ DOMAIN answers = {1}
    /\ answers[1].answer = <<Letter(1)>>
    /\ FindIter(AnswerVariants[1], AnswerSection(text)) # <<>>

\* the place of a layout in the order of the seven variants
LayoutRank(layout) == CASE layout = "v1" -> 1 [] layout = "v2" -> 2 [] layout = "v7" -> 7

\* the letters Entry prints for question k in a layout
LayoutLetters(k, layout) == IF layout = "v2" THEN MultiLetters(k) ELSE <<Letter(k + 1)>>

\* C18: the seven variants are tried in priority order with first-success
\* semantics: once a higher-priority variant has given the answer of a
\* number, no lower-priority variant replaces it.
FirstVariantWins ==
    (Resolved /\ input.kind = "twolayouts") =>
        LET best == IF LayoutRank(input.first) <= LayoutRank(input.second)
                    THEN input.first ELSE input.second
        IN  /\ DOMAIN answers = 1..input.ne
            /\ \A k \in 1..input.ne : answers[k].answer = LayoutLetters(k, best)

\* C19: every entry of the answer map has an answer that is a non-empty
\* string of letters A to E only, the commas and blanks captured with the
\* letters being removed, and no entry has an analysis but no answer.
AnswersAreLetters ==
    Resolved =>
        /\ \A n \in DOMAIN answers :
              /\ answers[n].answer # None
              /\ Len(answers[n].answer) > 0
              /\ \A i \in 1..Len(answers[n].answer) : answers[n].answer[i] \in AtoE
        /\ input.kind = "cleaning" =>
              /\ DOMAIN answers =
                    {k \in 1..Len(input.shapes) : ShapedLetters(k, input.shapes[k]) # <<>>}
              /\ \A k \in DOMAIN answers :
                    answers[k].answer = ShapedLetters(k, input.shapes[k])

AnswersAreLettersWitness ==
    /\ Resolved /\ input.kind = "cleaning"
    /\ input.shapes = <<"onlycommas", "blanks">>
    /\ DOMAIN answers = {2}
    /\ answers[2].answer = <<"A", "B">>

\* C20: appendix analysis extraction attaches an analysis only to a number
\* that already has an answer in the map, an analysis for another number
\* is discarded and creates no entry, and every stored analysis is at most
\* 500 characters long.
AnalysisOnlyForAnswered ==
    Resolved =>
        /\ \A n \in DOMAIN answers :
              \/ answers[n].analysis = None
              \/ /\ answers[n].answer # None
                 /\ Len(answers[n].analysis) <= MaxAnalysis
        /\ input.kind = "analysis" =>
              /\ DOMAIN answers = {1}
              /\ answers[1].analysis =
                    IF input.to = 1
                    THEN [i \in 1..(IF input.len < MaxAnalysis THEN input.len
                                     ELSE MaxAnalysis) |-> "han"]
                    ELSE None

\* an analysis longer than the limit is stored cut to the limit
AnalysisOnlyForAnsweredWitness ==
    /\ Resolved /\ input.kind = "analysis"
    /\ input.to = 1 /\ input.len > MaxAnalysis
    /\ Len(answers[1].analysis) = MaxAnalysis

\* an analysis printed for a question without an answer is discarded
AnalysisDiscardedWitness ==
    /\ Resolved /\ input.kind = "analysis"
    /\ input.to > 1 /\ input.len > 0
    /\ DOMAIN answers = {1}
    /\ answers[1].analysis = None

\* C16 as stated: without an answer marker the answer region is the last
\* three fifths of the text, the suffix that starts at two fifths of its
\* length; the entry of question 1 is found exactly when it starts there
\* or later.
RegionLastThreeFifths ==
    (Resolved /\ input.kind = "positional") =>
        (1 \in DOMAIN answers <=> input.f + 1 >= (2 * Len(text)) \div 5)

\* C16 amended: without an answer marker the answer region is the last two
\* fifths of the text, the suffix that starts at floor(3 * length / 5); the
\* entry of question 1 is found exactly when it starts there or later.
RegionLastTwoFifths ==
    (Resolved /\ input.kind = "positional") =>
        /\ NoMarker
        /\ 1 \in DOMAIN answers <=> input.f + 1 >= (3 * Len(text)) \div 5
        /\ DOMAIN answers \subseteq {1}

\* an entry that starts past two fifths and before three fifths is missed
RegionLastTwoFifthsWitness ==
    /\ Resolved /\ input.kind = "positional" /\ NoMarker
    /\ input.f + 1 >= (2 * Len(text)) \div 5
    /\ input.f + 1 < (3 * Len(text)) \div 5
    /\ answers = EmptyMap

\* an entry that starts past three fifths is found
RegionEntryFoundWitness ==
    /\ Resolved /\ input.kind = "positional"
    /\ input.f + 1 >= (3 * Len(text)) \div 5
    /\ DOMAIN answers = {1}

\* C10: the number of every returned question is a positive integer and no
\* two questions of one parse share a number.
NumbersPositiveDistinct ==
    pc = "done" =>
        /\ \A i \in 1..Len(questions) : questions[i].number > 0
        /\ \A i, j \in 1..Len(questions) :
              questions[i].number = questions[j].number => i = j

\* the most items of a paper parsed with the answers of the scanned table
MaxTableItems == 5

\* items numbered from in.from on, around the numbers 21..30 of the table
TableDoc(in) ==
    IF in.bare THEN BareItems(in.from, in.from + in.n - 1, in.inline)
    ELSE ShortItems(in.from, in.from + in.n - 1, in.inline)

TableInputs ==
    [kind : {"table"}, from : {19, 20, 21, 28, 30}, n : 1..MaxTableItems,
     inline : BOOLEAN, bare : BOOLEAN]

InitTable == \E in \in TableInputs : Begin(in, TableDoc(in), "table")

NextTable ==
    DetectRanges \/ SeparateCase \/ Segment \/ ParseOne \/ EndLoop \/ Override

SpecTable == InitTable /\ [][NextTable]_vars

\* C8: with the manual answer table in force, a question whose number is
\* in the table gets the table's answer even where an inline answer was
\* extracted, and a question whose number is not in it keeps the answer
\* extracted for it; nothing else of a question changes.
TableTakesPrecedence ==
    (pc = "done" /\ flavor = "table") =>
        /\ Len(questions) = Len(parsed)
        /\ \A i \in 1..Len(questions) :
              /\ questions[i].answer =
                    IF parsed[i].number \in 21..30
                    THEN multi_choice_answers[parsed[i].number]
                    ELSE parsed[i].answer
              /\ questions[i] = [parsed[i] EXCEPT !.answer = questions[i].answer]

TableTakesPrecedenceWitness ==
    /\ pc = "done" /\ flavor = "table" /\ input.inline
    /\ \E i, j \in 1..Len(questions) :
          /\ parsed[i].number = 21 /\ parsed[i].answer = <<Letter(21)>>
          /\ questions[i].answer = <<"B", "D", "E">>
          /\ parsed[j].number = 20 /\ questions[j].answer = <<Letter(20)>>

\* the most cases of a paper; the length of a background far below the
\* threshold; the length of a sub-question
MaxCases == 2
ShortBackground == 8
QuestionLen == 20

Fill(n) == [i \in 1..n |-> "han"]

NumeralOf(c) == <<"yi", "er", "san", "si">>[c]

\* the background lengths tried: a short one, and the threshold's neighbours
BackgroundLens ==
    {ShortBackground, MinBackground - 1, MinBackground, MinBackground + 1}

\* the line that opens case c
Marker(style, c) ==
    CASE style = "line" -> <<"an", "li", NumeralOf(c), "nl">>
      [] style = "paren" -> <<"an", "li", "lp", NumeralOf(c), "rp", "sp", "nl">>
      [] style = "bracket" -> <<"lb", "an", "li", NumeralOf(c), "rb", "nl">>
      [] style = "inline" -> <<"an", "li", NumeralOf(c), "sp">>

\* the numbered sub-questions; the first may name another case in passing
SubQuestionList(c, mention) ==
    <<"1", ".">>
    \o (IF mention
        THEN Fill(QuestionLen \div 2) \o <<"an", "li", NumeralOf(c + 1)>>
             \o Fill(QuestionLen \div 2)
        ELSE Fill(QuestionLen))
    \o <<"nl", "2", ".">> \o Fill(QuestionLen) \o <<"nl">>

\* tier 1: labelled background; tier 2: unlabelled, before the question
\* label; tier 3: unlabelled, before the numbered list
CaseBody(c, tier, len, mention) ==
    (IF tier = 1 THEN <<"bei", "jing", "zi", "liao", "fcolon">> ELSE <<>>)
    \o Fill(len) \o <<"nl">>
    \o (IF tier = 3 THEN <<>> ELSE <<"wen", "ti", "fcolon", "nl">>)
    \o SubQuestionList(c, mention)

RECURSIVE CaseSpans(_, _, _)
CaseSpans(from, to, in) ==
    IF from > to THEN <<>>
    ELSE Marker(in.style, from) \o CaseBody(from, in.tier, in.len, in.mention)
         \o CaseSpans(from + 1, to, in)

CaseDoc(in) ==
    <<"han", "x", "nl", "san", "dun", "an", "li", "han", "han", "ti", "nl">>
    \o CaseSpans(1, in.nc, in)

CaseInputs ==
    [kind : {"cases"}, nc : 1..MaxCases, style : {"line", "paren", "bracket", "inline"},
     tier : 1..3, len : BackgroundLens, mention : BOOLEAN]

InitCases == \E in \in CaseInputs : Begin(in, CaseDoc(in), "case")

NextCases == IsolateCases \/ FindMarkers \/ ParseCase \/ EndCases

SpecCases == InitCases /\ [][NextCases]_vars

\* C5: a case span whose extracted background is shorter than 50
\* characters produces no CaseStudy, whichever tier extracted it: every
\* CaseStudy returned has a background of 50 characters or more.
ShortBackgroundDropped ==
    \A i \in 1..Len(case_studies) : Len(case_studies[i].background) >= MinBackground

\* the same for the two unlabelled tiers, which the code does hold to it
UnlabelledShortBackgroundDropped ==
    (input.kind = "cases" /\ input.tier # 1) => ShortBackgroundDropped

\* the text at p starts with optional whitespace and a line break, or with
\* the background label
BreakOrLabelAt(section, p) ==
    \/ \E j \in p..Len(section) :
          /\ j < p + LookWindow
          /\ section[j] = "nl"
          /\ \A k \in p..(j - 1) : section[k] \in Space
    \/ p + 1 <= Len(section) /\ section[p] = "bei" /\ section[p + 1] = "jing"

\* the occurrences of the case token and a numeral in the section
Occurrences == FindIter(CaseRe1, case_section)

MarkersChosen == flavor = "case" /\ pc \in {"cases", "done"} /\ case_section # None

MaxParses == 2

\* what the finished parse returned, with what it was called on
Returned ==
    [flavor |-> flavor, text |-> text, meta |-> meta,
     result |-> IF flavor = "case" THEN case_studies ELSE questions]

\* the files of a batch: <<flavor, text, metadata>>
BatchFiles ==
    {<<"inline", BareItems(1, 2, TRUE), <<2020, "jd">>>>,
     <<"separate", BareItems(1, 2, TRUE) \o Entries(1, 2, "v1"), <<2020, "jd">>>>,
     <<"table", BareItems(20, 21, TRUE), <<2020, "jd">>>>,
     <<"case", CaseDoc([nc |-> 1, style |-> "line", tier |-> 1,
                        len |-> ShortBackground, mention |-> FALSE]),
       <<2020, "jd">>>>,
     <<"case", CaseDoc([nc |-> 1, style |-> "line", tier |-> 1,
                        len |-> ShortBackground, mention |-> FALSE]),
       <<2021, "jd">>>>}

\* ExamBatchParser: the next file goes to the same parser instance.  The
\* locals of the earlier call are dead; the model leaves their last values
\* in place, so a step that read one before writing it would show.
Reparse ==
    /\ pc = "done"
    /\ Len(log) < MaxParses
    /\ log' = Append(log, Returned)
    /\ \E d \in BatchFiles :
          /\ flavor' = d[1]
          /\ text' = d[2]
          /\ meta' = d[3]
    /\ pc' = "start"
    /\ UNCHANGED input
    /\ UNCHANGED ParserVars
    /\ UNCHANGED CaseVars

InitReuse ==
    \E d \in {f \in BatchFiles : f[3][1] = 2020} : Begin([kind |-> "batch"], d[2], d[1])

NextReuse ==
    \/ DetectRanges \/ SeparateCase \/ Segment \/ ParseOne \/ EndLoop
    \/ ExtractAnswers \/ Merge \/ Override
    \/ IsolateCases \/ FindMarkers \/ ParseCase \/ EndCases
    \/ Reparse

SpecReuse == InitReuse /\ [][NextReuse]_vars

\* the parses this instance has finished, the current one included
Finished == IF pc = "done" THEN Append(log, Returned) ELSE log

\* C7: parsing the same text twice on one parser instance gives equal
\* results: two parses of one instance called on the same text and metadata
\* return the same, whatever the instance parsed before or between them.
SameInputSameResult ==
    \A i, j \in 1..Len(Finished) :
        (/\ Finished[i].flavor = Finished[j].flavor
         /\ Finished[i].text = Finished[j].text
         /\ Finished[i].meta = Finished[j].meta)
        => Finished[i].result = Finished[j].result

SameInputSameResultWitness ==
    /\ pc = "done" /\ Len(log) = 2
    /\ log[1].text = text /\ log[1].flavor = flavor /\ log[1].meta = meta
    /\ log[2].text # text
    /\ Len(Returned.result) > 0
    /\ Returned.result = log[1].result

-----------------------------------------------------------------------------
(* Option blocks of inline items                                           *)

\* the most items of a paper whose first two items vary their option block
MaxOptionItems == 5

OptionLayouts == {"order", "reversed", "hollow", "twice", "cut", "three"}

\* the option lines of an item: in letter order, in reverse order, with an
\* option marker followed at once by the next marker, with a letter used
\* twice, with a marker followed at once by the answer label, and with three
\* options out of order
OptionBlock(layout) ==
    CASE layout = "order" ->
           <<"A", ".", "sp", "x", "nl", "B", ".", "sp", "y", "nl">>
      [] layout = "reversed" ->
           <<"B", ".", "sp", "y", "nl", "A", ".", "sp", "x", "nl">>
      [] layout = "hollow" ->
           <<"A", ".", "nl", "B", ".", "sp", "y", "nl">>
      [] layout = "twice" ->
           <<"A", ".", "sp", "x", "nl", "A", ".", "sp", "y", "nl">>
      [] layout = "cut" ->
           <<"A", ".", "sp", "x", "nl", "B", ".">>
      [] layout = "three" ->
           <<"C", ".", "sp", "x", "nl", "A", ".", "sp", "y", "nl",
             "B", ".", "sp", "x", "nl">>

\* the inline answer of an item: after the answer label, after the label
\* in brackets, after the correct-answer label, or as letters followed by
\* a check mark
AnswerForms == {"label", "bracket", "correct", "check"}

AnswerLine(form) ==
    CASE form = "label" -> <<"da", "an", ":", "A", "nl">>
      [] form = "bracket" -> <<"lb", "da", "an", "rb", "A", "nl">>
      [] form = "correct" -> <<"zheng", "que", "da", "an", ":", "A", "nl">>
      [] form = "check" -> <<"A", "sp", "chk", "nl">>

OptionItem(k, layout, form) ==
    NumToks(k) \o <<".", "han", "x", "?", "nl">> \o OptionBlock(layout)
    \o AnswerLine(form)

RECURSIVE OptionItems(_, _, _)
OptionItems(from, to, in) ==
    IF from > to THEN <<>>
    ELSE OptionItem(from,
                    IF from = 1 THEN in.first
                    ELSE IF from = 2 THEN in.second ELSE "order",
                    IF from = 1 THEN in.form ELSE "label")
         \o OptionItems(from + 1, to, in)

OptionDoc(in) == OptionItems(1, in.n, in)

\* enough items for the primary segmentation to be kept
OptionInputs ==
    [kind : {"options"}, n : (MinParts \div 2)..MaxOptionItems,
     first : OptionLayouts, second : OptionLayouts, form : AnswerForms]

\* what the stem of an item carries: nothing, the background token, or
\* the case label
StemMarks == {"none", "background", "caselabel"}

StemMark(mark) ==
    CASE mark = "none" -> <<>>
      [] mark = "background" -> <<"bei", "jing", "zi", "liao">>
      [] mark = "caselabel" -> <<"lp", "an", "li", "ti", "rp">>

\* the inline answer of one letter or of two, in one of the answer forms
TypedAnswerLine(form, letters) ==
    LET ls == IF letters = 1 THEN <<"A">> ELSE <<"A", "B">>
    IN  CASE form = "label" -> <<"da", "an", ":">> \o ls \o <<"nl">>
          [] form = "bracket" -> <<"lb", "da", "an", "rb">> \o ls \o <<"nl">>
          [] form = "correct" ->
               <<"zheng", "que", "da", "an", ":">> \o ls \o <<"nl">>
          [] form = "check" -> ls \o <<"sp", "chk", "nl">>

RECURSIVE TypedItems(_, _, _)
TypedItems(from, to, in) ==
    IF from > to THEN <<>>
    ELSE NumToks(from) \o <<".", "han">> \o StemMark(in.mark) \o <<"?", "nl">>
         \o OptionBlock("order") \o TypedAnswerLine(in.form, in.letters)
         \o TypedItems(from + 1, to, in)

\* the items, under a single-choice header that counts the first two of
\* them or under no header
TypedDoc(in) ==
    (IF in.head THEN SingleHeader(2, 1) ELSE <<>>) \o TypedItems(1, in.n, in)

TypedInputs ==
    [kind : {"typed"}, n : (MinParts \div 2)..MaxOptionItems, form : AnswerForms,
     letters : 1..2, mark : StemMarks, head : BOOLEAN]

InitOptions ==
    \/ \E in \in OptionInputs : Begin(in, OptionDoc(in), "inline")
    \/ \E in \in TypedInputs : Begin(in, TypedDoc(in), "inline")

SpecOptions == InitOptions /\ [][NextInline]_vars

LetterRank(l) ==
    CASE l = "A" -> 1 [] l = "B" -> 2 [] l = "C" -> 3 [] l = "D" -> 4
      [] l = "E" -> 5

\* C11: for every question produced, the keys of its options are unique,
\* are letters A to E, and iterate in ascending letter order, whatever the
\* order of the option markers in the segment.
OptionKeysAscending ==
    pc = "done" =>
        \A k \in 1..Len(questions) :
            LET keys == DictKeys(questions[k].options)
            IN  /\ \A i \in 1..Len(keys) : keys[i] \in AtoE
                /\ \A i, j \in 1..Len(keys) :
                      i < j => LetterRank(keys[i]) < LetterRank(keys[j])

\* C12: for every question produced, every option value is non-empty text,
\* also when an option marker is followed at once by the next marker or by
\* an inline answer label.
OptionValuesNonEmpty ==
    pc = "done" =>
        \A k \in 1..Len(questions) :
            \A i \in 1..Len(questions[k].options) :
                Len(questions[k].options[i][2]) > 0

-----------------------------------------------------------------------------
(* Papers whose cases differ in what can be extracted from them            *)

\* the most cases of a paper whose cases each take a shape of their own
MaxMixedCases == 3

\* a case with a labelled background and two sub-questions; one whose
\* unlabelled background is too short; one whose background label is
\* followed by nothing; one whose only sub-question is too short; one
\* whose whole content is too short
CaseShapes == {"good", "nobackground", "emptylabel", "noquestions", "short"}

BackgroundLabel == <<"bei", "jing", "zi", "liao", "fcolon">>
ProblemLabel == <<"wen", "ti", "fcolon", "nl">>

TwoQuestions ==
    <<"1", ".">> \o Fill(QuestionLen) \o <<"nl", "2", ".">> \o Fill(QuestionLen)
    \o <<"nl">>

ShapedBody(shape) ==
    CASE shape = "good" ->
           BackgroundLabel \o Fill(MinBackground + 1) \o <<"nl">> \o ProblemLabel
           \o TwoQuestions
      [] shape = "nobackground" ->
           Fill(ShortBackground) \o <<"nl">> \o TwoQuestions
      [] shape = "emptylabel" ->
           BackgroundLabel \o <<"nl">> \o ProblemLabel \o TwoQuestions
      [] shape = "noquestions" ->
           BackgroundLabel \o Fill(MinBackground + 1) \o <<"nl">> \o ProblemLabel
           \o <<"1", ".">> \o Fill(MinSubQuestion - 2) \o <<"nl">>
      [] shape = "short" ->
           Fill(ShortBackground) \o <<"nl">>

RECURSIVE ShapedSpans(_, _)
ShapedSpans(shapes, c) ==
    IF c > Len(shapes) THEN <<>>
    ELSE Marker("line", c) \o ShapedBody(shapes[c]) \o ShapedSpans(shapes, c + 1)

MixedCaseDoc(in) ==
    <<"han", "x", "nl", "san", "dun", "an", "li", "han", "han", "ti", "nl">>
    \o ShapedSpans(in.shapes, 1)

MixedCaseInputs ==
    {[kind |-> "mixed", shapes |-> sh] :
        sh \in UNION {[1..n -> CaseShapes] : n \in 1..MaxMixedCases}}

\* the most markers of a paper whose markers may carry the same numeral
MaxMarkers == 2

RECURSIVE NumberedSpans(_, _)
NumberedSpans(nums, c) ==
    IF c > Len(nums) THEN <<>>
    ELSE Marker("line", nums[c]) \o ShapedBody("good") \o NumberedSpans(nums, c + 1)

\* good cases under markers that carry the numerals nums, in that order
RepeatCaseDoc(in) ==
    <<"han", "x", "nl", "san", "dun", "an", "li", "han", "han", "ti", "nl">>
    \o NumberedSpans(in.nums, 1)

RepeatCaseInputs ==
    {[kind |-> "repeat", nums |-> ns] :
        ns \in UNION {[1..n -> 1..MaxMarkers] : n \in 1..MaxMarkers}}

\* how a case is opened: by the case token on a line, by the case token in
\* brackets, by a parenthesised numeral on a line before the background
\* label, by one before plain text, or by nothing
MarkerStyles == {"line", "bracket", "labelled", "plain", "none"}

StyledSpan(style, c) ==
    CASE style = "line" -> Marker("line", c) \o ShapedBody("good")
      [] style = "bracket" -> Marker("bracket", c) \o ShapedBody("good")
      [] style = "labelled" ->
           <<"lp", NumeralOf(c), "rp", "nl">> \o ShapedBody("good")
      [] style = "plain" ->
           <<"lp", NumeralOf(c), "rp", "nl">> \o Fill(MinBackground + 1) \o <<"nl">>
           \o ProblemLabel \o TwoQuestions
      [] style = "none" ->
           Fill(MinBackground + 1) \o <<"nl">> \o TwoQuestions

RECURSIVE StyledSpans(_, _)
StyledSpans(styles, c) ==
    IF c > Len(styles) THEN <<>>
    ELSE StyledSpan(styles[c], c) \o StyledSpans(styles, c + 1)

StyledCaseDoc(in) ==
    <<"han", "x", "nl", "san", "dun", "an", "li", "han", "han", "ti", "nl">>
    \o StyledSpans(in.styles, 1)

StyledCaseInputs ==
    {[kind |-> "styled", styles |-> st] :
        st \in UNION {[1..n -> MarkerStyles] : n \in 1..MaxMarkers}}

\* how the paper states the scores: cases one and two at 20 points and
\* case three at 30, the numerals of a statement listed inside one pair of
\* parentheses or each in its own; the first statement alone; or not at all
ScoreForms == {"joint", "apart", "first", "none"}

ScoreLine(form) ==
    LET Twenty == <<"ti", "ge", "sp", "2", "0", "sp", "fen">>
        Thirty == <<"fcomma", "lp", "san", "rp", "ti", "ge", "sp", "3", "0", "sp", "fen", "nl">>
    IN  CASE form = "joint" -> <<"lp", "yi", "dun", "er", "rp">> \o Twenty \o Thirty
          [] form = "apart" ->
               <<"lp", "yi", "rp", "dun", "lp", "er", "rp">> \o Twenty \o Thirty
          [] form = "first" -> <<"lp", "yi", "dun", "er", "rp">> \o Twenty \o <<"nl">>
          [] form = "none" -> <<>>

ScoredCaseDoc(in) ==
    <<"han", "x", "nl", "san", "dun", "an", "li", "han", "han", "ti", "nl">>
    \o ScoreLine(in.form)
    \o ShapedSpans([c \in 1..in.nc |-> "good"], 1)

ScoredCaseInputs == [kind : {"scored"}, nc : 1..MaxMixedCases, form : ScoreForms]

\* a case whose content has, once trimmed, exactly len characters: a
\* labelled background and one sub-question
SizedSpan(len, c) ==
    LET frame == BackgroundLabel \o <<"nl">> \o ProblemLabel \o <<"1", ".">>
                 \o Fill(QuestionLen)
    IN  Marker("line", c) \o BackgroundLabel \o Fill(len - Len(frame)) \o <<"nl">>
        \o ProblemLabel \o <<"1", ".">> \o Fill(QuestionLen) \o <<"nl">>

RECURSIVE SizedSpans(_, _)
SizedSpans(lens, c) ==
    IF c > Len(lens) THEN <<>>
    ELSE SizedSpan(lens[c], c) \o SizedSpans(lens, c + 1)

SizedCaseDoc(in) ==
    <<"han", "x", "nl", "san", "dun", "an", "li", "han", "han", "ti", "nl">>
    \o SizedSpans(in.lens, 1)

\* content lengths around the threshold
SizedCaseInputs ==
    {[kind |-> "sized", lens |-> ls] :
        ls \in UNION {[1..n -> {MinCaseContent - 1, MinCaseContent, MinCaseContent + 1}] :
                         n \in 1..MaxMarkers}}

\* a candidate sub-question: six characters; five characters; six
\* characters around a run of two blanks; five characters around one
CandidateShapes == {"six", "five", "spaced six", "spaced five"}

CandidateText(shape) ==
    CASE shape = "six" -> Fill(MinSubQuestion + 1)
      [] shape = "five" -> Fill(MinSubQuestion)
      [] shape = "spaced six" -> <<"han", "sp", "sp">> \o Fill(MinSubQuestion - 1)
      [] shape = "spaced five" -> <<"han", "sp", "sp">> \o Fill(MinSubQuestion - 2)

\* the text of the candidate once its blanks are collapsed
CandidateCleaned(shape) ==
    CASE shape = "six" -> Fill(MinSubQuestion + 1)
      [] shape = "five" -> Fill(MinSubQuestion)
      [] shape = "spaced six" -> <<"han", "sp">> \o Fill(MinSubQuestion - 1)
      [] shape = "spaced five" -> <<"han", "sp">> \o Fill(MinSubQuestion - 2)

RECURSIVE CandidateLines(_, _)
CandidateLines(shapes, k) ==
    IF k > Len(shapes) THEN <<>>
    ELSE NumToks(k) \o <<".">> \o CandidateText(shapes[k]) \o <<"nl">>
         \o CandidateLines(shapes, k + 1)

\* one case with a labelled background and the candidates as its questions
CandidateDoc(in) ==
    <<"han", "x", "nl", "san", "dun", "an", "li", "han", "han", "ti", "nl">>
    \o Marker("line", 1) \o BackgroundLabel \o Fill(MinBackground + 1) \o <<"nl">>
    \o ProblemLabel \o CandidateLines(in.shapes, 1)

MaxCandidates == 3

CandidateInputs ==
    {[kind |-> "candidates", shapes |-> sh] :
        sh \in UNION {[1..n -> CandidateShapes] : n \in 1..MaxCandidates}}

InitMixed ==
    \/ \E in \in MixedCaseInputs : Begin(in, MixedCaseDoc(in), "case")
    \/ \E in \in CandidateInputs : Begin(in, CandidateDoc(in), "case")
    \/ \E in \in SizedCaseInputs : Begin(in, SizedCaseDoc(in), "case")
    \/ \E in \in ScoredCaseInputs : Begin(in, ScoredCaseDoc(in), "case")
    \/ \E in \in StyledCaseInputs : Begin(in, StyledCaseDoc(in), "case")
    \/ \E in \in RepeatCaseInputs : Begin(in, RepeatCaseDoc(in), "case")

SpecMixed == InitMixed /\ [][NextCases]_vars

\* the numbers of the cases written in the good shape, in document order
RECURSIVE GoodCases(_, _)
GoodCases(shapes, c) ==
    IF c > Len(shapes) THEN <<>>
    ELSE (IF shapes[c] = "good" THEN <<c>> ELSE <<>>) \o GoodCases(shapes, c + 1)

\* C13: every CaseStudy returned has a non-empty background and at least
\* one sub-question; a case span whose background extraction returns
\* nothing, or whose sub-question extraction returns an empty list,
\* contributes no CaseStudy, and the other cases of the document are
\* still returned.
DroppedCasesLeaveTheRest ==
    /\ \A i \in 1..Len(case_studies) :
          /\ case_studies[i].background # None
          /\ Len(case_studies[i].background) > 0
          /\ Len(case_studies[i].sub_questions) >= 1
    /\ (pc = "done" /\ input.kind = "mixed") =>
          [i \in 1..Len(case_studies) |-> case_studies[i].case_number]
              = GoodCases(input.shapes, 1)

DroppedCasesLeaveTheRestWitness ==
    /\ pc = "done" /\ input.kind = "mixed"
    /\ input.shapes = <<"emptylabel", "noquestions", "good">>
    /\ Len(case_studies) = 1
    /\ case_studies[1].case_number = MaxMixedCases

\* C14: within the case studies returned for one document, the case
\* numbers are positive and pairwise distinct, also when one numeral stands
\* at more than one accepted marker.
CaseNumbersPositiveDistinct ==
    /\ \A i \in 1..Len(case_studies) : case_studies[i].case_number > 0
    /\ \A i, j \in 1..Len(case_studies) :
          i # j => case_studies[i].case_number # case_studies[j].case_number

\* the matches of one pattern that are among the markers used
UsedOf(ms) == SelectSeq(ms, LAMBDA m : \E i \in 1..Len(case_matches) : case_matches[i] = m)

\* C21: marker detection tries the strategies a, b, c, d in that order
\* and uses only the matches of the first that yields any: a marker of a
\* lower strategy is never a case boundary when a higher strategy matched,
\* and when no strategy matches the case list is empty.
FirstStrategyOnly ==
    MarkersChosen =>
        LET a == FindIter(CaseRe1, case_section)
            b == FindIter(CaseRe2, case_section)
            c == FindIter(CaseRe3, case_section)
            d == FindIter(CaseRe4, case_section)
        IN  /\ Len(a) > 0 => /\ Len(case_matches) > 0
                             /\ UsedOf(a) = case_matches
            /\ (Len(a) = 0 /\ Len(b) > 0) => case_matches = b
            /\ (Len(a) = 0 /\ Len(b) = 0 /\ Len(c) > 0) => case_matches = c
            /\ (Len(a) = 0 /\ Len(b) = 0 /\ Len(c) = 0) => case_matches = d
            /\ (Len(a) = 0 /\ Len(b) = 0 /\ Len(c) = 0 /\ Len(d) = 0) =>
                  /\ case_matches = <<>>
                  /\ pc = "done" /\ case_studies = <<>>

\* a paper with a marker of strategy a and a marker of strategy b: only
\* the first is a boundary
FirstStrategyOnlyWitness ==
    /\ MarkersChosen /\ pc = "done" /\ input.kind = "styled"
    /\ input.styles = <<"line", "labelled">>
    /\ Len(FindIter(CaseRe2, case_section)) = 1
    /\ Len(case_matches) = 1
    /\ Len(case_studies) = 1

\* a paper whose markers only the last strategy finds
LastStrategyWitness ==
    /\ MarkersChosen /\ pc = "done" /\ input.kind = "styled"
    /\ input.styles = <<"plain", "plain">>
    /\ Len(case_matches) = MaxMarkers
    /\ Len(case_studies) = MaxMarkers

\* main_text is the text before the case section followed by a stretch of
\* the text that lies wholly after the case section
OutsideCaseSection(m) ==
    m.ok => \E i \in m.e..Len(text) + 1 : \E j \in i - 1..Len(text) :
                main_text = Upto(text, m.s) \o SubSeq(text, i, j)

\* C22: the text the choice questions are segmented from contains no part
\* of the case-study section, also when an answer heading occurs before the
\* header of the case section.
MainTextExcludesCases ==
    (flavor = "inline" /\ pc \in {"main", "loop", "done"}) =>
        OutsideCaseSection(Search(CaseSectionRe, text))

\* the same when the only answer heading follows the case section
MainTextExcludesCasesLateHeading ==
    (flavor = "inline" /\ pc \in {"main", "loop", "done"}
     /\ input.kind = "casepaper" /\ ~input.early) =>
        OutsideCaseSection(Search(CaseSectionRe, text))

\* a paper with the heading after the case section has been cut
MainTextExcludesCasesWitness ==
    /\ flavor = "inline" /\ pc = "done" /\ input.kind = "casepaper"
    /\ ~input.early /\ input.late
    /\ Len(main_text) < Len(text)
    /\ Len(questions) > 0

\* the characters of the inline answer labels and of the check mark
LabelTokens == {"da", "an", "zheng", "que", "jie", "xi", "lb", "rb", "chk"}

\* no option value of the question holds a character of an answer label or
\* a line of answer letters
OptionsFreeOfAnswer(q) ==
    \A i \in 1..Len(q.options) :
        LET value == q.options[i][2]
        IN  /\ \A j \in 1..Len(value) : value[j] \notin LabelTokens
            /\ \A j \in 1..Len(value) : value[j] # "nl"

\* C23: an option value is the text after its marker cut at the first
\* embedded answer or analysis marker, so that no part of an inline answer
\* label or of the answer text of any inline answer pattern, the
\* correct-answer label and the letters with a check mark included, appears
\* in an option value.
NoAnswerInOptions ==
    (pc = "done" /\ input.kind = "options") =>
        \A k \in 1..Len(questions) : OptionsFreeOfAnswer(questions[k])

\* the same for the answer label alone or in brackets
NoLabelledAnswerInOptions ==
    (pc = "done" /\ input.kind = "options"
     /\ input.form \in {"label", "bracket"}) =>
        \A k \in 1..Len(questions) : OptionsFreeOfAnswer(questions[k])

\* an item whose answer follows the label in brackets has been parsed with
\* its two options and its answer
NoLabelledAnswerInOptionsWitness ==
    /\ pc = "done" /\ input.kind = "options" /\ input.form = "bracket"
    /\ input.first = "order"
    /\ Len(questions) > 0
    /\ questions[1].options = <<<<"A", <<"x">> >>, <<"B", <<"y">> >> >>
    /\ questions[1].answer = <<"A">>

\* the types whose range holds the number
RangesHolding(number) ==
    {t \in DOMAIN type_ranges :
        type_ranges[t][1] <= number /\ number <= type_ranges[t][2]}

\* the type the disambiguation rule gives a question of a typed paper
TypeByRule(q) ==
    IF q.answer # None /\ Len(q.answer) > 1 THEN <<"multi">>
    ELSE IF input.mark \in {"background", "caselabel"} THEN <<"case">>
    ELSE <<"single">>

\* C24: a question whose number lies in a type range has the type of the
\* range; one whose number lies in no range is multi-choice if its inline
\* answer has more than one letter, else a case question if its segment
\* holds the background token or a case label, else single-choice; every
\* question has one of the three types.
TypeFollowsRule ==
    (pc = "done" /\ input.kind = "typed") =>
        \A k \in 1..Len(questions) :
            LET q == questions[k]
            IN  /\ q.type \in {<<"single">>, <<"multi">>, <<"case">>}
                /\ \A t \in RangesHolding(q.number) : q.type = <<t>>
                /\ RangesHolding(q.number) = {} => q.type = TypeByRule(q)

\* the same for answers given after the answer label or the correct-answer
\* label
TypeFollowsRuleAfterLabel ==
    (pc = "done" /\ input.kind = "typed"
     /\ input.form \in {"label", "correct"}) =>
        \A k \in 1..Len(questions) :
            LET q == questions[k]
            IN  /\ q.type \in {<<"single">>, <<"multi">>, <<"case">>}
                /\ \A t \in RangesHolding(q.number) : q.type = <<t>>
                /\ RangesHolding(q.number) = {} => q.type = TypeByRule(q)

\* a paper with a header over two items and two answer letters per item:
\* the items under the header are single-choice, the others multi-choice
TypeFollowsRuleWitness ==
    /\ pc = "done" /\ input.kind = "typed" /\ input.form = "label"
    /\ input.head /\ input.letters = 2
    /\ Len(questions) >= 3
    /\ questions[1].type = <<"single">> /\ Len(questions[1].answer) = 2
    /\ questions[3].type = <<"multi">>

\* the background holds nothing of the question label
BeforeQuestions(background) == ~Search(WenTi, background).ok

\* C25: the third tier of the background extraction is used only for a span
\* with neither the background label nor a question marker; when the span
\* has a question marker the background returned holds no text at or after
\* that marker.
BackgroundStopsAtQuestions ==
    (pc = "done" /\ input.kind = "cases") =>
        \A i \in 1..Len(case_studies) : BeforeQuestions(case_studies[i].background)

\* the same for spans whose text before the question marker is longer than
\* the threshold
LongBackgroundStopsAtQuestions ==
    (pc = "done" /\ input.kind = "cases" /\ input.len > MinBackground) =>
        \A i \in 1..Len(case_studies) : BeforeQuestions(case_studies[i].background)

\* an unlabelled background above the threshold, cut at the question marker
LongBackgroundStopsAtQuestionsWitness ==
    /\ pc = "done" /\ input.kind = "cases" /\ input.tier = 2
    /\ input.len > MinBackground
    /\ Len(case_studies) > 0
    /\ case_studies[1].background = Fill(input.len)

\* every span of the paper has produced a CaseStudy
EverySpanKept == Len(case_studies) = input.nc

\* C26: a span whose background has at least 50 characters, exactly 50
\* included, and which has a valid sub-question produces a CaseStudy, in
\* each of the three tiers of the background extraction.
BackgroundOfFiftyKept ==
    (pc = "done" /\ input.kind = "cases" /\ input.style = "line"
     /\ input.len >= MinBackground) => EverySpanKept

\* the same for backgrounds of more than 50 characters
BackgroundAboveFiftyKept ==
    (pc = "done" /\ input.kind = "cases" /\ input.style = "line"
     /\ input.len > MinBackground) => EverySpanKept

\* a paper of the third tier with backgrounds just above the threshold
BackgroundAboveFiftyKeptWitness ==
    /\ pc = "done" /\ input.kind = "cases" /\ input.style = "line"
    /\ input.tier = 3 /\ input.len = MinBackground + 1 /\ input.nc = MaxCases
    /\ Len(case_studies) = MaxCases
    /\ \A i \in 1..Len(case_studies) :
          Len(case_studies[i].background) = MinBackground + 1

\* the score the statements of the paper give case c
ScoreStated(form, c) ==
    IF form = "none" THEN NoScore
    ELSE IF c \in {1, 2} THEN [some |-> TRUE, v |-> 20]
    ELSE IF form = "first" THEN NoScore
    ELSE [some |-> TRUE, v |-> 30]

ScoresAsStated ==
    \A i \in 1..Len(case_studies) :
        case_studies[i].score = ScoreStated(input.form, case_studies[i].case_number)

\* C27: every numeral of a parenthesised list followed by a points
\* statement receives the score of that statement; statements over disjoint
\* sets of cases each apply; a case listed in no statement has no score.
ScoreOfEveryListedCase ==
    (pc = "done" /\ input.kind = "scored") => ScoresAsStated

\* the same for lists written inside one pair of parentheses
ScoreOfJointList ==
    (pc = "done" /\ input.kind = "scored" /\ input.form # "apart") => ScoresAsStated

\* a paper of three cases with two statements, the first listing two cases
ScoreOfJointListWitness ==
    /\ pc = "done" /\ input.kind = "scored" /\ input.form = "joint"
    /\ Len(case_studies) = MaxMixedCases
    /\ case_studies[2].score = [some |-> TRUE, v |-> 20]
    /\ case_studies[MaxMixedCases].score = [some |-> TRUE, v |-> 30]

\* the text from the end of marker i to the start of the next marker used,
\* or to the end of the question part of the section
SpanOf(i) ==
    LET last == IF i < Len(case_matches) THEN case_matches[i + 1].s - 1
                ELSE Len(case_section)
    IN  [k \in 1..(last + 1 - case_matches[i].e) |->
            case_section[case_matches[i].e + k - 1]]

\* what span i contributes: nothing when its trimmed text is shorter than
\* the threshold, else the case parsed from it under its numeral's value
StudyOfSpan(i) ==
    LET Parsed(chinese, span) ==
            IF Len(Strip(span)) < MinCaseContent THEN <<>>
            ELSE ParseSingleCase(chinese_to_arabic[chinese], chinese, span, meta,
                                 ScoreOf(score_info, chinese_to_arabic[chinese]))
    IN  Parsed(Group(case_section, case_matches[i], 1)[1], SpanOf(i))

RECURSIVE StudiesOfSpans(_)
StudiesOfSpans(i) ==
    IF i > Len(case_matches) THEN <<>>
    ELSE StudyOfSpan(i) \o StudiesOfSpans(i + 1)

\* C28: the span of a case runs from the end of its marker to the start of
\* the next marker used, or to the end of the question part of the section;
\* a span shorter than 50 characters once trimmed gives no CaseStudy; the
\* CaseStudies stand in the order of their markers, each numbered by the
\* value of its marker's numeral.
SpansParsedInOrder ==
    (MarkersChosen /\ pc = "done") => case_studies = StudiesOfSpans(1)

\* a paper whose first case is one character short of the threshold and
\* whose second case just reaches it: only the second is returned
SpansParsedInOrderWitness ==
    /\ MarkersChosen /\ pc = "done" /\ input.kind = "sized"
    /\ input.lens = <<MinCaseContent - 1, MinCaseContent>>
    /\ Len(case_matches) = 2
    /\ Len(Strip(SpanOf(1))) = MinCaseContent - 1
    /\ Len(Strip(SpanOf(2))) = MinCaseContent
    /\ Len(case_studies) = 1
    /\ case_studies[1].case_number = 2
    /\ Len(case_studies[1].sub_questions) = 1

\* the candidates of the paper that are longer than five characters once
\* cleaned, as number and text, in the order of the paper
RECURSIVE LongCandidates(_, _)
LongCandidates(shapes, k) ==
    IF k > Len(shapes) THEN <<>>
    ELSE (IF Len(CandidateCleaned(shapes[k])) > 5
          THEN <<<<k, CandidateCleaned(shapes[k])>>>> ELSE <<>>)
         \o LongCandidates(shapes, k + 1)

NumberAndText(subs) == [k \in 1..Len(subs) |-> <<subs[k].sub_number, subs[k].question>>]

MergeReplacesBoth ==
    (flavor = "separate" /\ pc = "done") =>
        /\ Len(questions) = Len(parsed)
        /\ \A i \in 1..Len(questions) :
              LET q == questions[i]
                  n == parsed[i].number
              IN  /\ q.number = n
                  /\ q.type = parsed[i].type
                  /\ q.question = parsed[i].question
                  /\ q.options = parsed[i].options
                  /\ n \notin DOMAIN answers =>
                        /\ q.answer = parsed[i].answer
                        /\ q.analysis = parsed[i].analysis
                  /\ n \in DOMAIN answers =>
                        /\ q.answer = answers[n].answer
                        /\ q.analysis = answers[n].analysis

\* a question with an inline analysis whose entry has none has lost it,
\* while a question outside the map has kept its inline answer
MergeReplacesBothWitness ==
    /\ flavor = "separate" /\ pc = "done"
    /\ \E i \in 1..Len(questions) :
          /\ parsed[i].number \in DOMAIN answers
          /\ parsed[i].analysis # None
          /\ answers[parsed[i].number].analysis = None
          /\ questions[i].analysis = None
    /\ \E j \in 1..Len(questions) :
          /\ parsed[j].number \notin DOMAIN answers
          /\ parsed[j].answer # None
          /\ questions[j].answer = parsed[j].answer

====
